---- MODULE Spec2Model ----
(***************************************************************************)
(* Daemon: a personal-profile document (daemon.md) is parsed into named    *)
(* sections and access-tagged content blocks, validated at build time and  *)
(* filtered per requester level by the MCP worker.                         *)
(*                                                                         *)
(* Text is modelled as a sequence of tokens.  A token is either a single   *)
(* character ("[", "]", "@", "-", ":", the newline NL, the blank SP) or a  *)
(* whole word of word characters (\w+) that the regular expressions of the *)
(* code treat as a unit: the three level names, another lower-case word    *)
(* ("secret"), ordinary text words ("x", "s"), upper-case section names    *)
(* ("ABOUT", "NARRATIVE"), the category names of the projects section and  *)
(* telos codes ("P1").  A word token stands for a maximal run of word      *)
(* characters: two word tokens are never adjacent in a text (WellLexed),   *)
(* so \w+ and [A-Z_]+ match exactly one token.                             *)
(***************************************************************************)
EXTENDS Integers, Sequences, FiniteSets, TLC

VARIABLES
    pkm,        \* text of the author's source file (PKM_PATH of the build script)
    asset,      \* text of public/daemon.md, the static asset the worker reads
    validation, \* what the validators last returned and on which text, or NoValidation
    exit,       \* exit status of the last build run, -1 before any run
    req,        \* the request handled on the files as they are, or NoReq
    load,       \* what loadDaemonData computed for that request, or NoLoad
    resp,       \* the response to that request, or NoResp
    body,       \* a trimmed section body handed to parseContentBlocks
    blocks,     \* what parseContentBlocks returned for it, or NoBlocks
    calls,      \* the tools/call requests in flight: the locals of each invocation
    authn,      \* an Authorization header, the env secrets and what getAccessLevel returned
    list,       \* a section text and what parseMarkdownList returned for it
    check,      \* what a run of the stand-alone validator reported, or NoCheck
    telos,      \* a section text and what parseTelosItems returned for it
    projects    \* a section text and the projects value parseStructuredData built from it

vars == <<pkm, asset, validation, exit, req, load, resp, body, blocks, calls, authn, list,
          check, telos, projects>>

-----------------------------------------------------------------------------
(* Tokens and character classes                                             *)

NL == "\n"
SP == " "
LB == "["
RB == "]"
AT == "@"
DASH == "-"
COLON == ":"

UpperWords == {"ABOUT", "NARRATIVE"}
LevelWords == {"public", "restricted", "private"}
LowerWords == LevelWords \cup {"secret", "hidden", "about", "narrative", "x", "s"}
\* the category names of the projects section, and one in another case
CategoryWords == {"technical", "creative", "personal"}
TitleWords == {"Creative"}
\* words of the shape [PMG]\d+
TelosCodes == {"P1", "M2", "G3"}

\* \s
IsSpace(t) == t \in {NL, SP}
\* \w
IsWord(t) == t \in UpperWords \cup LowerWords \cup CategoryWords \cup TitleWords \cup TelosCodes
\* [A-Z_]
IsUpper(t) == t \in UpperWords

\* String.prototype.toLowerCase on one word
ToLowerCase(t) ==
    CASE t = "ABOUT" -> "about"
      [] t = "NARRATIVE" -> "narrative"
      [] t = "Creative" -> "creative"
      [] OTHER -> t

\* a text in which every word token is a maximal \w+ run
WellLexed(s) == \A i \in 1..(Len(s) - 1) : ~(IsWord(s[i]) /\ IsWord(s[i + 1]))

\* s.substring(i-1, j-1): the tokens at positions i..j-1 (1-based)
Slice(s, i, j) == IF j <= i THEN <<>> ELSE SubSeq(s, i, j - 1)

\* first position >= i that does not hold a token of class P (Len(s)+1 if none):
\* the end of the greedy run P* started at i
RunEnd(s, i, P(_)) ==
    LET stops == {j \in i..Len(s) : ~P(s[j])}
    IN  IF stops = {} THEN Len(s) + 1
        ELSE CHOOSE j \in stops : \A k \in stops : j <= k

\* String.prototype.trim
Trim(s) ==
    LET keep == {j \in 1..Len(s) : ~IsSpace(s[j])}
    IN  IF keep = {} THEN <<>>
        ELSE LET lo == CHOOSE j \in keep : \A k \in keep : j <= k
                 hi == CHOOSE j \in keep : \A k \in keep : j >= k
             IN  SubSeq(s, lo, hi)

\* String.prototype.split('\n'): the texts between the newlines
SplitLines(s) ==
    LET from[p \in 1..(Len(s) + 1)] ==
            LET next == {i \in p..Len(s) : s[i] = NL}
            IN  IF next = {} THEN << Slice(s, p, Len(s) + 1) >>
                ELSE << Slice(s, p, CHOOSE j \in next : \A k \in next : j <= k) >>
                     \o from[(CHOOSE j \in next : \A k \in next : j <= k) + 1]
    IN  from[1]

\* Array.prototype.join('\n') on texts
JoinLines(lines) ==
    LET upto[n \in 0..Len(lines)] ==
            IF n = 0 THEN <<>>
            ELSE IF n = 1 THEN lines[1]
            ELSE upto[n - 1] \o <<NL>> \o lines[n]
    IN  upto[Len(lines)]

\* the regex fragment \s*\n tried at position i: the position after the match,
\* or 0 when it cannot match.  \s* is greedy, so the \n that is matched is the
\* last newline of the whitespace run.
SpacesThenNewline(s, i) ==
    LET e == RunEnd(s, i, IsSpace)
        nls == {j \in i..(e - 1) : s[j] = NL}
    IN  IF nls = {} THEN 0
        ELSE (CHOOSE j \in nls : \A k \in nls : j >= k) + 1

-----------------------------------------------------------------------------
(* Evaluation helpers: F applied to the values of its arguments              *)

Val1(x, F(_)) == CHOOSE r \in {F(a) : a \in {x}} : TRUE
Val2(x, y, F(_, _)) == CHOOSE r \in {F(a, b) : a \in {x}, b \in {y}} : TRUE

\* the least element of a non-empty set of integers
Min(S) == CHOOSE j \in S : \A k \in S : j <= k

-----------------------------------------------------------------------------
(* parseContentBlocks                                                       *)

\* the regex /\n@(public|restricted|private)\s*\n/ tried at position i:
\* the position after the match, or 0
MarkerMatchEnd(s, i) ==
    IF /\ i + 2 <= Len(s)
       /\ s[i] = NL
       /\ s[i + 1] = AT
       /\ s[i + 2] \in LevelWords
    THEN SpacesThenNewline(s, i + 3)
    ELSE 0

\* content.split(/\n@(public|restricted|private)\s*\n/): the parts, a text
\* (token sequence) and a captured level alternating
SplitText(s) ==
    LET from[p \in 1..(Len(s) + 1)] ==
            LET hits == {i \in p..Len(s) : MarkerMatchEnd(s, i) # 0}
            IN  IF hits = {} THEN << Slice(s, p, Len(s) + 1) >>
                ELSE << Slice(s, p, Min(hits)), s[Min(hits) + 2] >>
                     \o from[MarkerMatchEnd(s, Min(hits))]
    IN  from[1]

SplitOnMarkers(content) == Val1(content, SplitText)

\* the blocks pushed for parts[0] and by the loop
\* `for (let i = 1; i < parts.length; i += 2)`
BlocksOfParts(parts) ==
    LET first == IF Len(parts) > 0 /\ Trim(parts[1]) # <<>>
                 THEN << [content |-> Trim(parts[1]), accessLevel |-> "inherited"] >>
                 ELSE <<>>
        explicit[i \in 1..(Len(parts) + 2)] ==
            IF i > Len(parts) THEN <<>>
            ELSE IF i + 1 <= Len(parts) /\ Trim(parts[i + 1]) # <<>>
            THEN << [content |-> Trim(parts[i + 1]), accessLevel |-> parts[i]] >>
                 \o explicit[i + 2]
            ELSE explicit[i + 2]
    IN  first \o explicit[2]

ParseContentBlocks(content) == Val1(SplitOnMarkers(content), BlocksOfParts)

-----------------------------------------------------------------------------
(* parseDaemonDataWithAccess                                                *)

NoMatch == [ok |-> FALSE]

\* the lazy body ([\s\S]*?)(?=\n\[|$) started at position b: the position where
\* it ends (the first "\n[" at or after b, else the end of the text)
BodyEnd(s, b) ==
    LET stops == {p \in b..(Len(s) - 1) : s[p] = NL /\ s[p + 1] = LB}
    IN  IF stops = {} THEN Len(s) + 1 ELSE Min(stops)

\* where the body starts when /\[([A-Z_]+)\](?:\s*@(\w+))?\s*\n/ matches at
\* position i with the optional group taking part, or 0
HeaderEndWithLevel(s, i) ==
    LET w == RunEnd(s, i + 3, IsSpace)
    IN  IF w + 1 <= Len(s) /\ s[w] = AT /\ IsWord(s[w + 1])
        THEN SpacesThenNewline(s, w + 2)
        ELSE 0

\* the regex /\[([A-Z_]+)\](?:\s*@(\w+))?\s*\n([\s\S]*?)(?=\n\[|$)/ tried at
\* position i.  The optional group is tried first; when the rest cannot match
\* after it the regex backtracks and matches without the group.
SectionMatchAt(s, i) ==
    IF ~(i + 2 <= Len(s) /\ s[i] = LB /\ IsUpper(s[i + 1]) /\ s[i + 2] = RB)
    THEN NoMatch
    ELSE IF HeaderEndWithLevel(s, i) # 0
    THEN [ok |-> TRUE,
          name |-> s[i + 1],
          level |-> s[RunEnd(s, i + 3, IsSpace) + 1],
          body |-> Slice(s, HeaderEndWithLevel(s, i), BodyEnd(s, HeaderEndWithLevel(s, i))),
          lastIndex |-> BodyEnd(s, HeaderEndWithLevel(s, i))]
    ELSE IF SpacesThenNewline(s, i + 3) # 0
    THEN [ok |-> TRUE,
          name |-> s[i + 1],
          level |-> "undefined",
          body |-> Slice(s, SpacesThenNewline(s, i + 3),
                         BodyEnd(s, SpacesThenNewline(s, i + 3))),
          lastIndex |-> BodyEnd(s, SpacesThenNewline(s, i + 3))]
    ELSE NoMatch

\* the matches of the loop `while ((match = sectionRegex.exec(content)) !== null)`
SectionMatchesOf(s) ==
    LET from[lastIndex \in 1..(Len(s) + 1)] ==
            LET hits == {i \in lastIndex..Len(s) : SectionMatchAt(s, i).ok}
            IN  IF hits = {} THEN <<>>
                ELSE << SectionMatchAt(s, Min(hits)) >>
                     \o from[SectionMatchAt(s, Min(hits)).lastIndex]
    IN  from[1]

SectionMatches(content) == Val1(content, SectionMatchesOf)

\* sections[sectionName] = section on a JavaScript object: a key that exists
\* keeps its place in the key order and gets the new value, a new key is added
\* at the end
SetSectionOf(sections, section) ==
    IF \E i \in 1..Len(sections) : sections[i].name = section.name
    THEN [i \in 1..Len(sections) |->
            IF sections[i].name = section.name THEN section ELSE sections[i]]
    ELSE Append(sections, section)

SetSection(sections, section) == Val2(sections, section, SetSectionOf)

\* the section the loop body builds from a match; dflt is the level given to a
\* header that carries no marker
SectionOfMatch(m, dflt) ==
    [name |-> ToLowerCase(m.name),
     defaultAccessLevel |-> IF m.level # "undefined" THEN ToLowerCase(m.level) ELSE dflt,
     content |-> ParseContentBlocks(Trim(m.body))]

\* the sections object after the loop
SectionsOfMatches(matches, dflt) ==
    LET upto[n \in 0..Len(matches)] ==
            IF n = 0 THEN <<>>
            ELSE SetSection(upto[n - 1], SectionOfMatch(matches[n], dflt))
    IN  upto[Len(matches)]

\* the worker's parser: a header without a marker is given 'public'
ParseDaemonDataWithAccess(content) ==
    Val2(SectionMatches(content), "public", SectionsOfMatches)

\* the build script's parser: a header without a marker has no level
BuildParseDaemonDataWithAccess(content) ==
    Val2(SectionMatches(content), "undefined", SectionsOfMatches)

-----------------------------------------------------------------------------
(* Access levels and the content filter (worker)                            *)

levelOrder == <<"public", "restricted", "private">>

\* Array.prototype.indexOf: the 0-based index of x, or -1
IndexOf(arr, x) ==
    IF \E i \in 1..Len(arr) : arr[i] = x
    THEN Min({i \in 1..Len(arr) : arr[i] = x}) - 1
    ELSE -1

\* mutants of isAccessible: the comparison the wrong way round, and strict
IsAccessibleSwapped(contentLevel, userLevel) ==
    IndexOf(levelOrder, contentLevel) >= IndexOf(levelOrder, userLevel)

IsAccessibleStrict(contentLevel, userLevel) ==
    IndexOf(levelOrder, userLevel) > IndexOf(levelOrder, contentLevel)

IsAccessible(contentLevel, userLevel) ==
    LET contentIndex == IndexOf(levelOrder, contentLevel)
        userIndex == IndexOf(levelOrder, userLevel)
    IN  userIndex >= contentIndex

ResolveContentAccessLevel(blockAccessLevel, sectionDefaultLevel) ==
    IF blockAccessLevel = "inherited" THEN sectionDefaultLevel ELSE blockAccessLevel

\* Array.prototype.join('\n\n') on texts
JoinTexts(texts) ==
    LET upto[n \in 0..Len(texts)] ==
            IF n = 0 THEN <<>>
            ELSE IF n = 1 THEN texts[1]
            ELSE upto[n - 1] \o <<NL, NL>> \o texts[n]
    IN  upto[Len(texts)]

JoinBlankLine(texts) == Val1(texts, JoinTexts)

\* the texts filterSectionContent pushes to accessibleBlocks
AccessibleBlocksOf(section, userLevel) ==
    LET Visible(block) ==
            IsAccessible(
                ResolveContentAccessLevel(
                    block.accessLevel,
                    IF section.defaultAccessLevel = "undefined" THEN "public"
                    ELSE section.defaultAccessLevel),
                userLevel)
        keep[n \in 0..Len(section.content)] ==
            IF n = 0 THEN <<>>
            ELSE IF Visible(section.content[n])
            THEN Append(keep[n - 1], section.content[n].content)
            ELSE keep[n - 1]
    IN  keep[Len(section.content)]

AccessibleBlocks(section, userLevel) == Val2(section, userLevel, AccessibleBlocksOf)

FilterSectionContent(section, userLevel) ==
    JoinBlankLine(AccessibleBlocks(section, userLevel))

\* mutant of loadDaemonData: every section is put in the map, empty or not
FilterEntriesKeepEmpty(sections, accessLevel) ==
    [n \in 1..Len(sections) |->
        [key |-> sections[n].name,
         value |-> JoinBlankLine(AccessibleBlocks(sections[n], accessLevel))]]

\* the loop of loadDaemonData over Object.entries(sections)
FilterEntries(sections, accessLevel) ==
    LET upto[n \in 0..Len(sections)] ==
            IF n = 0 THEN <<>>
            ELSE IF Trim(FilterSectionContent(sections[n], accessLevel)) # <<>>
            THEN Append(upto[n - 1],
                        [key |-> sections[n].name,
                         value |-> FilterSectionContent(sections[n], accessLevel)])
            ELSE upto[n - 1]
    IN  upto[Len(sections)]

\* loadDaemonData once the text has been fetched
FilteredSections(content, accessLevel) ==
    Val2(ParseDaemonDataWithAccess(content), accessLevel, FilterEntries)

\* sections[key] on the filtered map: the text, or <<>> for undefined
Lookup(filteredSections, key) ==
    IF \E i \in 1..Len(filteredSections) : filteredSections[i].key = key
    THEN (CHOOSE e \in {filteredSections[i] : i \in 1..Len(filteredSections)} :
              e.key = key).value
    ELSE <<>>

-----------------------------------------------------------------------------
(* The validators of the build script                                       *)

\* mutant of validateContentSecurity: a block at the section's own level is
\* reported too (<= for <)
SectionViolationsLeq(section) ==
    LET upto[n \in 0..Len(section.content)] ==
            IF n = 0 THEN <<>>
            ELSE IF section.content[n].accessLevel = "inherited" THEN upto[n - 1]
            ELSE IF IndexOf(levelOrder, section.content[n].accessLevel)
                       <= IndexOf(levelOrder, section.defaultAccessLevel)
            THEN Append(upto[n - 1],
                        [section |-> section.name,
                         sectionLevel |-> section.defaultAccessLevel,
                         blockLevel |-> section.content[n].accessLevel])
            ELSE upto[n - 1]
    IN  upto[Len(section.content)]

\* the errors validateContentSecurity pushes for one section
SectionViolations(section) ==
    LET upto[n \in 0..Len(section.content)] ==
            IF n = 0 THEN <<>>
            ELSE IF section.content[n].accessLevel = "inherited" THEN upto[n - 1]
            ELSE IF IndexOf(levelOrder, section.content[n].accessLevel)
                       < IndexOf(levelOrder, section.defaultAccessLevel)
            THEN Append(upto[n - 1],
                        [section |-> section.name,
                         sectionLevel |-> section.defaultAccessLevel,
                         blockLevel |-> section.content[n].accessLevel])
            ELSE upto[n - 1]
    IN  upto[Len(section.content)]

\* the loop of validateContentSecurity over Object.entries(sections)
SecurityErrors(sections) ==
    LET upto[n \in 0..Len(sections)] ==
            IF n = 0 THEN <<>>
            ELSE IF sections[n].defaultAccessLevel = "undefined" THEN upto[n - 1]
            ELSE upto[n - 1] \o SectionViolations(sections[n])
    IN  upto[Len(sections)]

SecurityResult(errors) == [valid |-> Len(errors) = 0, errors |-> errors]

ValidateContentSecurity(content) ==
    Val1(Val1(BuildParseDaemonDataWithAccess(content), SecurityErrors), SecurityResult)

\* mutant of validateAccessFormat: the header loop stops at its first error
HeaderLevelErrorsFirstOnly(s) ==
    LET At(i) == RunEnd(s, i + 3, IsSpace)
        Hit(i) == /\ i + 2 <= Len(s)
                  /\ s[i] = LB /\ IsUpper(s[i + 1]) /\ s[i + 2] = RB
                  /\ At(i) + 1 <= Len(s)
                  /\ s[At(i)] = AT /\ IsWord(s[At(i) + 1])
        from[lastIndex \in 1..(Len(s) + 1)] ==
            LET hits == {i \in lastIndex..Len(s) : Hit(i)}
            IN  IF hits = {} THEN <<>>
                ELSE IF s[At(Min(hits)) + 1] \notin LevelWords
                THEN << [kind |-> "section", section |-> s[Min(hits) + 1],
                         level |-> s[At(Min(hits)) + 1]] >>
                ELSE from[At(Min(hits)) + 2]
    IN  from[1]

\* the errors of the loop over /\[([A-Z_]+)\]\s*@(\w+)/g
HeaderLevelErrors(s) ==
    LET At(i) == RunEnd(s, i + 3, IsSpace)
        Hit(i) == /\ i + 2 <= Len(s)
                  /\ s[i] = LB /\ IsUpper(s[i + 1]) /\ s[i + 2] = RB
                  /\ At(i) + 1 <= Len(s)
                  /\ s[At(i)] = AT /\ IsWord(s[At(i) + 1])
        from[lastIndex \in 1..(Len(s) + 1)] ==
            LET hits == {i \in lastIndex..Len(s) : Hit(i)}
            IN  IF hits = {} THEN <<>>
                ELSE IF s[At(Min(hits)) + 1] \notin LevelWords
                THEN << [kind |-> "section", section |-> s[Min(hits) + 1],
                         level |-> s[At(Min(hits)) + 1]] >>
                     \o from[At(Min(hits)) + 2]
                ELSE from[At(Min(hits)) + 2]
    IN  from[1]

\* the errors of the loop over /@(\w+)\s*\n/g
ContentLevelErrors(s) ==
    LET Hit(i) == /\ i + 1 <= Len(s)
                  /\ s[i] = AT /\ IsWord(s[i + 1])
                  /\ SpacesThenNewline(s, i + 2) # 0
        from[lastIndex \in 1..(Len(s) + 1)] ==
            LET hits == {i \in lastIndex..Len(s) : Hit(i)}
            IN  IF hits = {} THEN <<>>
                ELSE IF s[Min(hits) + 1] \notin LevelWords
                THEN << [kind |-> "content", section |-> "", level |-> s[Min(hits) + 1]] >>
                     \o from[SpacesThenNewline(s, Min(hits) + 2)]
                ELSE from[SpacesThenNewline(s, Min(hits) + 2)]
    IN  from[1]

FormatErrors(s) == HeaderLevelErrors(s) \o ContentLevelErrors(s)

\* validateAccessFormat of the build script
ValidateAccessFormat(content) == Val1(Val1(content, FormatErrors), SecurityResult)

-----------------------------------------------------------------------------
(* The MCP request handler (worker)                                         *)

\* TOOLS: the access level of each tool name
ToolNames ==
    {"get_about", "get_narrative", "get_mission", "get_projects", "get_telos",
     "get_favorite_books", "get_favorite_movies", "get_current_location",
     "get_preferences", "get_daily_routine", "get_predictions",
     "get_favorite_podcasts", "get_personal_contacts", "get_family_details",
     "get_mico_instructions", "get_all", "get_section"}

ToolAccessLevel(name) ==
    CASE name \in {"get_about", "get_mission", "get_favorite_books",
                   "get_favorite_movies", "get_current_location",
                   "get_favorite_podcasts", "get_all", "get_section"} -> "public"
      [] name \in {"get_narrative", "get_projects", "get_telos", "get_preferences",
                   "get_daily_routine", "get_predictions"} -> "restricted"
      [] name \in {"get_personal_contacts", "get_family_details",
                   "get_mico_instructions"} -> "private"

\* toolToSection: the section a tool name maps to, or "" for undefined
ToolToSection(name) ==
    CASE name = "get_about" -> "about"
      [] name = "get_narrative" -> "narrative"
      [] name = "get_mission" -> "mission"
      [] name = "get_projects" -> "projects"
      [] name = "get_telos" -> "telos"
      [] name = "get_favorite_books" -> "favorite_books"
      [] name = "get_favorite_movies" -> "favorite_movies"
      [] name = "get_current_location" -> "current_location"
      [] name = "get_preferences" -> "preferences"
      [] name = "get_daily_routine" -> "daily_routine"
      [] name = "get_predictions" -> "predictions"
      [] name = "get_favorite_podcasts" -> "favorite_podcasts"
      [] name = "get_personal_contacts" -> "personal_contacts"
      [] name = "get_family_details" -> "family_details"
      [] name = "get_mico_instructions" -> "mico_instructions"
      [] OTHER -> ""

\* the secrets of the deployment (env.PRIVATE_TOKEN, env.RESTRICTED_TOKEN)
PRIVATE_TOKEN == "tokP"
RESTRICTED_TOKEN == "tokR"

\* request.headers.get('Authorization'): null when the header is absent
NoHeader == [present |-> FALSE, value |-> <<>>]
HeaderOf(value) == [present |-> TRUE, value |-> value]

\* an env secret: undefined when it is not configured
NoSecret == [defined |-> FALSE, value |-> <<>>]
SecretOf(value) == [defined |-> TRUE, value |-> value]

\* authHeader.replace(/^Bearer\s+/i, '').trim()
BearerToken(value) ==
    IF Len(value) >= 2 /\ value[1] \in {"Bearer", "bearer", "BEARER"} /\ IsSpace(value[2])
    THEN Trim(Slice(value, RunEnd(value, 2, IsSpace), Len(value) + 1))
    ELSE Trim(value)

\* mutant of getAccessLevel: the restricted token is checked first
GetAccessLevelRestrictedFirst(authHeader, env) ==
    IF ~authHeader.present \/ authHeader.value = <<>> THEN "public"
    ELSE IF /\ env.RESTRICTED_TOKEN.defined /\ env.RESTRICTED_TOKEN.value # <<>>
            /\ BearerToken(authHeader.value) = env.RESTRICTED_TOKEN.value
    THEN "restricted"
    ELSE IF /\ env.PRIVATE_TOKEN.defined /\ env.PRIVATE_TOKEN.value # <<>>
            /\ BearerToken(authHeader.value) = env.PRIVATE_TOKEN.value
    THEN "private"
    ELSE "public"

\* getAccessLevel(request, env)
GetAccessLevelOf(authHeader, env) ==
    IF ~authHeader.present \/ authHeader.value = <<>> THEN "public"
    ELSE IF /\ env.PRIVATE_TOKEN.defined /\ env.PRIVATE_TOKEN.value # <<>>
            /\ BearerToken(authHeader.value) = env.PRIVATE_TOKEN.value
    THEN "private"
    ELSE IF /\ env.RESTRICTED_TOKEN.defined /\ env.RESTRICTED_TOKEN.value # <<>>
            /\ BearerToken(authHeader.value) = env.RESTRICTED_TOKEN.value
    THEN "restricted"
    ELSE "public"

\* getAccessLevel in the deployment with both secrets configured; auth is the
\* bearer token of the Authorization header, or "" when the request has no
\* such header
GetAccessLevel(auth) ==
    GetAccessLevelOf(IF auth = "" THEN NoHeader ELSE HeaderOf(<<"Bearer", SP, auth>>),
                     [PRIVATE_TOKEN |-> SecretOf(<<PRIVATE_TOKEN>>),
                      RESTRICTED_TOKEN |-> SecretOf(<<RESTRICTED_TOKEN>>)])

\* getDaemonContent: the asset's text, or '' when getAssetFromKV throws
GetDaemonContent(text, kvOk) == IF kvOk THEN text ELSE <<>>

JsonRpcError(code, message) ==
    [kind |-> "error", code |-> code, message |-> message, text |-> <<>>, data |-> <<>>]

TextResult(text) ==
    [kind |-> "result", code |-> 0, message |-> <<>>, text |-> text, data |-> <<>>]

\* line.replace(/^-\s*/, ''): the regex is anchored at the start of the line
StripBullet(line) ==
    IF Len(line) >= 1 /\ line[1] = DASH
    THEN Slice(line, RunEnd(line, 2, IsSpace), Len(line) + 1)
    ELSE line

\* parseMarkdownList: split('\n'), keep the lines whose trimmed text starts with
\* '-', strip the bullet, trim, drop the empty items
ParseMarkdownList(content) ==
    LET lines == SplitLines(content)
        upto[n \in 0..Len(lines)] ==
            IF n = 0 THEN <<>>
            ELSE IF /\ Trim(lines[n]) # <<>>
                    /\ Trim(lines[n])[1] = DASH
                    /\ Trim(StripBullet(lines[n])) # <<>>
            THEN Append(upto[n - 1], Trim(StripBullet(lines[n])))
            ELSE upto[n - 1]
    IN  IF content = <<>> THEN <<>> ELSE upto[Len(lines)]

\* parseTelosItems: split('\n'), keep the lines whose trimmed text matches
\* /^-\s*[PMG]\d+:/, strip the bullet, trim, drop the empty items
ParseTelosItems(content) ==
    LET lines == SplitLines(content)
        Code(t) == RunEnd(t, 2, IsSpace)
        Matches(t) == /\ t # <<>>
                      /\ t[1] = DASH
                      /\ Code(t) + 1 <= Len(t)
                      /\ t[Code(t)] \in TelosCodes
                      /\ t[Code(t) + 1] = COLON
        upto[n \in 0..Len(lines)] ==
            IF n = 0 THEN <<>>
            ELSE IF /\ Matches(Trim(lines[n]))
                    /\ Trim(StripBullet(lines[n])) # <<>>
            THEN Append(upto[n - 1], Trim(StripBullet(lines[n])))
            ELSE upto[n - 1]
    IN  IF content = <<>> THEN <<>> ELSE upto[Len(lines)]

LIST_SECTIONS == {"favorite_books", "favorite_movies", "favorite_podcasts",
                  "predictions", "preferences", "daily_routine"}

\* no category of the projects value is set
NoProjectsValue == [technical |-> [set |-> FALSE, items |-> <<>>],
                    creative |-> [set |-> FALSE, items |-> <<>>],
                    personal |-> [set |-> FALSE, items |-> <<>>]]

\* line.trim().toLowerCase().includes(word)
Includes(line, word) ==
    \E k \in 1..Len(Trim(line)) : ToLowerCase(Trim(line)[k]) = word

\* mutant of the projects loop: a bullet line is pushed to technical whatever
\* the current category
ProjectsLineToTechnical(state, line) ==
    IF Includes(line, "technical")
    THEN [currentCategory |-> "technical",
          projects |-> [state.projects EXCEPT !.technical = [set |-> TRUE, items |-> <<>>]]]
    ELSE IF Includes(line, "creative")
    THEN [currentCategory |-> "creative",
          projects |-> [state.projects EXCEPT !.creative = [set |-> TRUE, items |-> <<>>]]]
    ELSE IF Includes(line, "personal")
    THEN [currentCategory |-> "personal",
          projects |-> [state.projects EXCEPT !.personal = [set |-> TRUE, items |-> <<>>]]]
    ELSE IF /\ state.currentCategory # "null"
            /\ Trim(line) # <<>>
            /\ Trim(line)[1] = DASH
            /\ Trim(StripBullet(line)) # <<>>
    THEN [state EXCEPT !.projects["technical"].items =
                           Append(@, Trim(StripBullet(line)))]
    ELSE state

\* one turn of the loop over the lines of the projects section
ProjectsLine(state, line) ==
    IF Includes(line, "technical")
    THEN [currentCategory |-> "technical",
          projects |-> [state.projects EXCEPT !.technical = [set |-> TRUE, items |-> <<>>]]]
    ELSE IF Includes(line, "creative")
    THEN [currentCategory |-> "creative",
          projects |-> [state.projects EXCEPT !.creative = [set |-> TRUE, items |-> <<>>]]]
    ELSE IF Includes(line, "personal")
    THEN [currentCategory |-> "personal",
          projects |-> [state.projects EXCEPT !.personal = [set |-> TRUE, items |-> <<>>]]]
    ELSE IF /\ state.currentCategory # "null"
            /\ Trim(line) # <<>>
            /\ Trim(line)[1] = DASH
            /\ Trim(StripBullet(line)) # <<>>
    THEN [state EXCEPT !.projects[state.currentCategory].items =
                           Append(@, Trim(StripBullet(line)))]
    ELSE state

\* the locals of the projects branch after the first n lines of the section
ProjectsLoop(value, n) ==
    LET lines == SplitLines(value)
        upto[k \in 0..Len(lines)] ==
            IF k = 0 THEN [currentCategory |-> "null", projects |-> NoProjectsValue]
            ELSE ProjectsLine(upto[k - 1], lines[k])
    IN  upto[n]

\* the projects branch of parseStructuredData: the loop, then technical for
\* all bullets when no category was set
ParseProjects(value) ==
    LET after == ProjectsLoop(value, Len(SplitLines(value))).projects
    IN  IF ~after.technical.set /\ ~after.creative.set /\ ~after.personal.set
        THEN [after EXCEPT !.technical = [set |-> TRUE, items |-> ParseMarkdownList(value)]]
        ELSE after

\* parseStructuredData: a list for the LIST_SECTIONS, the items of telos, the
\* categories of projects, the text of any other section
ParseStructuredData(sections) ==
    [i \in 1..Len(sections) |->
        [key |-> sections[i].key,
         value |-> IF sections[i].key \in LIST_SECTIONS
                   THEN ParseMarkdownList(sections[i].value)
                   ELSE IF sections[i].key = "telos"
                   THEN ParseTelosItems(sections[i].value)
                   ELSE IF sections[i].key = "projects"
                   THEN ParseProjects(sections[i].value)
                   ELSE sections[i].value]]

\* JSON.stringify(structuredData, null, 2) as the text of the result
JsonResult(data) ==
    [kind |-> "result", code |-> 0, message |-> <<>>, text |-> <<"json">>, data |-> data]

\* `Section '${sectionName}' not found or not accessible`
NotFoundText(sectionName) == <<"Section '", sectionName, "' not found or not accessible">>

\* the tools/call branch of handleMcpRequest once the sections are loaded
ToolResult(sections, toolName, section) ==
    IF toolName = "get_all"
    THEN JsonResult(ParseStructuredData(sections))
    ELSE IF toolName = "get_section"
    THEN IF section = ""
         THEN JsonRpcError(-32602, <<"Invalid params: missing section name">>)
         ELSE IF Lookup(sections, ToLowerCase(section)) # <<>>
         THEN TextResult(Lookup(sections, ToLowerCase(section)))
         ELSE TextResult(NotFoundText(ToLowerCase(section)))
    ELSE IF ToolToSection(toolName) # ""
    THEN IF Lookup(sections, ToolToSection(toolName)) # <<>>
         THEN TextResult(Lookup(sections, ToolToSection(toolName)))
         ELSE TextResult(NotFoundText(ToolToSection(toolName)))
    ELSE JsonRpcError(-32601, <<"Unknown tool: ", toolName>>)

\* TOOLS: the tool names in the order of the array
TOOLS ==
    << "get_about", "get_narrative", "get_mission", "get_projects", "get_telos",
       "get_favorite_books", "get_favorite_movies", "get_current_location",
       "get_preferences", "get_daily_routine", "get_predictions",
       "get_favorite_podcasts", "get_personal_contacts", "get_family_details",
       "get_mico_instructions", "get_all", "get_section" >>

\* mutant of tools/list: a tool is listed only at its own level
HandleToolsListOwnLevel(userAccessLevel) ==
    LET Accessible(tool) == ToolAccessLevel(tool) = userAccessLevel
    IN  [kind |-> "tools", code |-> 0, message |-> <<>>, text |-> <<>>,
         data |-> SelectSeq(TOOLS, Accessible)]

\* the tools/list branch of handleMcpRequest: the tools accessible at the level
HandleToolsList(userAccessLevel) ==
    LET Accessible(tool) == IsAccessible(ToolAccessLevel(tool), userAccessLevel)
    IN  [kind |-> "tools", code |-> 0, message |-> <<>>, text |-> <<>>,
         data |-> SelectSeq(TOOLS, Accessible)]

\* the GET branch of fetch: getAssetFromKV serves the file at the path, the
\* catch answers 404
ServeAsset(text, path, kvOk) ==
    IF kvOk /\ path = "/daemon.md"
    THEN [kind |-> "asset", code |-> 200, message |-> <<>>, text |-> text, data |-> <<>>]
    ELSE [kind |-> "asset", code |-> 404, message |-> <<>>, text |-> <<"Not Found">>,
          data |-> <<>>]

\* mutant of handleMcpRequest: the access check runs before the tool is looked
\* up, a tool that is not in TOOLS counting as private
HandleToolsCallGateFirst(content, userAccessLevel, toolName, section) ==
    IF toolName = ""
    THEN JsonRpcError(-32602, <<"Invalid params: missing tool name">>)
    ELSE IF ~IsAccessible(IF toolName \in ToolNames THEN ToolAccessLevel(toolName)
                          ELSE "private", userAccessLevel)
    THEN JsonRpcError(-32603, <<"Access denied: ", toolName, " requires ",
                                IF toolName \in ToolNames THEN ToolAccessLevel(toolName)
                                ELSE "private", " access">>)
    ELSE IF toolName \notin ToolNames
    THEN JsonRpcError(-32601, <<"Unknown tool: ", toolName>>)
    ELSE LET Answer(sections) == ToolResult(sections, toolName, section)
         IN  Val1(FilteredSections(content, userAccessLevel), Answer)

\* the tools/call branch of handleMcpRequest.  toolName "" is a missing name,
\* section "" a missing `section` argument.
HandleToolsCall(content, userAccessLevel, toolName, section) ==
    IF toolName = ""
    THEN JsonRpcError(-32602, <<"Invalid params: missing tool name">>)
    ELSE IF toolName \notin ToolNames
    THEN JsonRpcError(-32601, <<"Unknown tool: ", toolName>>)
    ELSE IF ~IsAccessible(ToolAccessLevel(toolName), userAccessLevel)
    THEN JsonRpcError(-32603, <<"Access denied: ", toolName, " requires ",
                                ToolAccessLevel(toolName), " access">>)
    ELSE LET Answer(sections) == ToolResult(sections, toolName, section)
         IN  Val1(FilteredSections(content, userAccessLevel), Answer)

\* whether the tools/call branch reaches loadDaemonData
ReachesLoad(userAccessLevel, toolName) ==
    /\ toolName \in ToolNames
    /\ IsAccessible(ToolAccessLevel(toolName), userAccessLevel)

-----------------------------------------------------------------------------
(* Documents                                                                *)

\* the longest document, in lines
MaxLines == 4

HeaderLines ==
    { <<LB, "ABOUT", RB>>,
      <<LB, "ABOUT", RB, SP, AT, "private">>,
      <<LB, "NARRATIVE", RB, SP, AT, "restricted">>,
      <<LB, "NARRATIVE", RB, SP, AT, "secret">> }

MarkerLines == { <<AT, "public">>, <<AT, "private">> }

TextLines == { <<"x">>, <<>> }

\* the text of a sequence of lines, each ended by a newline
Flatten(lines) ==
    LET upto[n \in 0..Len(lines)] ==
            IF n = 0 THEN <<>> ELSE upto[n - 1] \o lines[n] \o <<NL>>
    IN  upto[Len(lines)]

\* every text of at most n lines drawn from `kinds`
DocsOf(kinds, n) ==
    { Flatten(ls) : ls \in UNION { [1..k -> kinds] : k \in 0..n } }

\* the documents an author may write
Docs == DocsOf(HeaderLines \cup MarkerLines \cup TextLines, MaxLines)

\* the documents of the build-and-serve specification
PipelineDocs ==
    DocsOf({ <<LB, "ABOUT", RB>>,
             <<LB, "NARRATIVE", RB, SP, AT, "restricted">>,
             <<AT, "public">>,
             <<"x">> }, MaxLines)

\* public/daemon.md as committed: one section, no markers
InitialAsset == <<LB, "ABOUT", RB, NL, "x", NL>>

-----------------------------------------------------------------------------
(* State machine                                                            *)

NoValidation == [text |-> <<>>, by |-> "none", format |-> FALSE, security |-> FALSE,
                 errors |-> <<>>]
NoReq == [method |-> "none", auth |-> "", name |-> "", section |-> "", kvOk |-> TRUE]
NoLoad == [ran |-> FALSE, content |-> <<>>, level |-> "", sections |-> <<>>,
           filtered |-> <<>>]
NoResp == [kind |-> "none", code |-> 0, message |-> <<>>, text |-> <<>>, data |-> <<>>]
NoBlocks == [ran |-> FALSE, blocks |-> <<>>]
NoAuthn == [ran |-> FALSE, header |-> NoHeader,
            env |-> [PRIVATE_TOKEN |-> NoSecret, RESTRICTED_TOKEN |-> NoSecret],
            level |-> ""]
NoList == [ran |-> FALSE, text |-> <<>>, items |-> <<>>]

NoCheck == [ran |-> FALSE, read |-> FALSE, text |-> <<>>, warnings |-> <<>>,
            format |-> FALSE, security |-> FALSE, errors |-> <<>>, exit |-> -1]

NoTelos == [ran |-> FALSE, text |-> <<>>, items |-> <<>>]

NoProjects == [ran |-> FALSE, text |-> <<>>, value |-> NoProjectsValue]

\* the locals of one invocation of handleMcpRequest
NoCall == [pc |-> "idle", auth |-> "", name |-> "", section |-> "",
           userAccessLevel |-> "", kvOk |-> TRUE, content |-> <<>>, resp |-> NoResp]

\* the number of requests the worker handles at a time
MaxCalls == 2
Slots == 1..MaxCalls
NoCalls == [i \in Slots |-> NoCall]

\* what loadDaemonData computes from the fetched text
LoadDaemonData(content, accessLevel) ==
    [ran |-> TRUE, content |-> content, level |-> accessLevel,
     sections |-> ParseDaemonDataWithAccess(content),
     filtered |-> FilteredSections(content, accessLevel)]

\* mutant of buildDaemonData: the security validation is left out
BuildWithoutSecurity ==
    \E readOk \in BOOLEAN, writeOk \in BOOLEAN :
        LET format == ValidateAccessFormat(pkm)
        IN  /\ req = NoReq
            /\ IF ~readOk
               THEN /\ validation' = NoValidation
                    /\ exit' = 1
                    /\ asset' = asset
               ELSE IF ~format.valid
               THEN /\ validation' = [text |-> pkm, by |-> "build", format |-> FALSE,
                                      security |-> FALSE, errors |-> format.errors]
                    /\ exit' = 1
                    /\ asset' = asset
               ELSE /\ validation' = [text |-> pkm, by |-> "build", format |-> TRUE,
                                      security |-> TRUE, errors |-> <<>>]
                    /\ exit' = IF writeOk THEN 0 ELSE 1
                    /\ asset' = IF writeOk THEN pkm ELSE asset
            /\ UNCHANGED <<pkm, req, load, resp, body, blocks, calls, authn, list, check, telos, projects>>

\* buildDaemonData: read the source, validate its format, validate its security,
\* write public/daemon.md (mkdir or writeFile may throw); process.exit(success ?
\* 0 : 1).  The files change between requests: req, load and resp describe a
\* request to the files as they are.
Build ==
    \E readOk \in BOOLEAN, writeOk \in BOOLEAN :
        LET format == ValidateAccessFormat(pkm)
            security == ValidateContentSecurity(pkm)
        IN  /\ req = NoReq
            /\ IF ~readOk
               THEN /\ validation' = NoValidation
                    /\ exit' = 1
                    /\ asset' = asset
               ELSE IF ~format.valid
               THEN /\ validation' = [text |-> pkm, by |-> "build", format |-> FALSE,
                                      security |-> FALSE, errors |-> format.errors]
                    /\ exit' = 1
                    /\ asset' = asset
               ELSE IF ~security.valid
               THEN /\ validation' = [text |-> pkm, by |-> "build", format |-> TRUE,
                                      security |-> FALSE, errors |-> security.errors]
                    /\ exit' = 1
                    /\ asset' = asset
               ELSE /\ validation' = [text |-> pkm, by |-> "build", format |-> TRUE,
                                      security |-> TRUE, errors |-> <<>>]
                    /\ exit' = IF writeOk THEN 0 ELSE 1
                    /\ asset' = IF writeOk THEN pkm ELSE asset
            /\ UNCHANGED <<pkm, req, load, resp, body, blocks, calls, authn, list, check, telos, projects>>

\* public/daemon.md is edited by hand ("Edit this file to customize your daemon")
\* and deployed as it is
EditDaemonMd ==
    /\ req = NoReq
    /\ asset' = pkm
    /\ UNCHANGED <<pkm, validation, exit, req, load, resp, body, blocks, calls, authn, list, check, telos, projects>>

AuthTokens == {"", RESTRICTED_TOKEN, PRIVATE_TOKEN}
CallNames == {"get_about", "get_narrative", "get_all", "get_section", "get_nonexistent"}
SectionArgs == {"", "NARRATIVE", "missing"}

\* POST / with method tools/call: handleMcpRequest to its response.  The worker
\* keeps nothing between requests, so one request is observed per state of the
\* files.
ToolsCall ==
    \E auth \in AuthTokens, name \in CallNames, section \in SectionArgs, kvOk \in BOOLEAN :
        LET userAccessLevel == GetAccessLevel(auth)
            content == GetDaemonContent(asset, kvOk)
        IN  /\ req = NoReq
            /\ section # "" => name = "get_section"
            /\ req' = [method |-> "tools/call", auth |-> auth, name |-> name,
                       section |-> section, kvOk |-> kvOk]
            /\ load' = IF ReachesLoad(userAccessLevel, name)
                       THEN LoadDaemonData(content, userAccessLevel)
                       ELSE NoLoad
            /\ resp' = HandleToolsCall(content, userAccessLevel, name, section)
            /\ UNCHANGED <<pkm, asset, validation, exit, body, blocks, calls, authn, list, check, telos, projects>>

Init ==
    /\ pkm \in PipelineDocs
    /\ asset = InitialAsset
    /\ validation = NoValidation
    /\ exit = -1
    /\ req = NoReq
    /\ load = NoLoad
    /\ resp = NoResp
    /\ body = <<>>
    /\ blocks = NoBlocks
    /\ calls = NoCalls
    /\ authn = NoAuthn
    /\ list = NoList
    /\ check = NoCheck
    /\ telos = NoTelos
    /\ projects = NoProjects

Next == Build \/ EditDaemonMd \/ ToolsCall

Spec == Init /\ [][Next]_vars

-----------------------------------------------------------------------------
(* The build script on any source document                                  *)

\* sources that pass both validations, fail the format check, or fail the
\* security check
BuildDocs ==
    DocsOf({ <<LB, "ABOUT", RB>>,
             <<LB, "NARRATIVE", RB, SP, AT, "restricted">>,
             <<LB, "NARRATIVE", RB, SP, AT, "secret">>,
             <<AT, "public">>,
             <<"x">> }, MaxLines)

InitBuild ==
    /\ pkm \in BuildDocs
    /\ asset = InitialAsset
    /\ validation = NoValidation
    /\ exit = -1
    /\ req = NoReq
    /\ load = NoLoad
    /\ resp = NoResp
    /\ body = <<>>
    /\ blocks = NoBlocks
    /\ calls = NoCalls
    /\ authn = NoAuthn
    /\ list = NoList
    /\ check = NoCheck
    /\ telos = NoTelos
    /\ projects = NoProjects

SpecBuild == InitBuild /\ [][Build]_vars

-----------------------------------------------------------------------------
(* validateAccessFormat as a function of a document                         *)

FormatLines ==
    { <<LB, "ABOUT", RB>>,
      <<LB, "ABOUT", RB, SP, AT, "hidden">>,
      <<LB, "NARRATIVE", RB, SP, AT, "secret">>,
      <<LB, "NARRATIVE", RB, SP, AT, "private">>,
      <<AT, "secret">>,
      <<"x", SP, AT, "secret">>,
      <<"x">> }

FormatDocs == DocsOf(FormatLines, MaxLines)

ValidateFormat ==
    /\ validation = NoValidation
    /\ validation' = [text |-> asset, by |-> "validateAccessFormat",
                      format |-> ValidateAccessFormat(asset).valid,
                      security |-> FALSE,
                      errors |-> ValidateAccessFormat(asset).errors]
    /\ UNCHANGED <<pkm, asset, exit, req, load, resp, body, blocks, calls, authn, list, check, telos, projects>>

InitFormat ==
    /\ pkm = <<>>
    /\ asset \in FormatDocs
    /\ validation = NoValidation
    /\ exit = -1
    /\ req = NoReq
    /\ load = NoLoad
    /\ resp = NoResp
    /\ body = <<>>
    /\ blocks = NoBlocks
    /\ calls = NoCalls
    /\ authn = NoAuthn
    /\ list = NoList
    /\ check = NoCheck
    /\ telos = NoTelos
    /\ projects = NoProjects

SpecFormat == InitFormat /\ [][ValidateFormat]_vars

-----------------------------------------------------------------------------
(* The parser, the validator and the filter as functions of a document      *)

\* loadDaemonData applied to the document at a requester level
Filter ==
    \E accessLevel \in LevelWords :
        /\ req = NoReq
        /\ validation = NoValidation
        /\ req' = [method |-> "loadDaemonData", auth |-> "", name |-> "", section |-> "",
                   kvOk |-> TRUE]
        /\ load' = LoadDaemonData(asset, accessLevel)
        /\ UNCHANGED <<pkm, asset, validation, exit, resp, body, blocks, calls, authn, list, check, telos, projects>>

\* validateContentSecurity applied to the document
Validate ==
    /\ req = NoReq
    /\ validation = NoValidation
    /\ validation' = [text |-> asset, by |-> "validateContentSecurity", format |-> FALSE,
                      security |-> ValidateContentSecurity(asset).valid,
                      errors |-> ValidateContentSecurity(asset).errors]
    /\ UNCHANGED <<pkm, asset, exit, req, load, resp, body, blocks, calls, authn, list, check, telos, projects>>

InitFilter ==
    /\ pkm = <<>>
    /\ asset \in Docs
    /\ validation = NoValidation
    /\ exit = -1
    /\ req = NoReq
    /\ load = NoLoad
    /\ resp = NoResp
    /\ body = <<>>
    /\ blocks = NoBlocks
    /\ calls = NoCalls
    /\ authn = NoAuthn
    /\ list = NoList
    /\ check = NoCheck
    /\ telos = NoTelos
    /\ projects = NoProjects

NextFilter == Filter \/ Validate

SpecFilter == InitFilter /\ [][NextFilter]_vars

-----------------------------------------------------------------------------
(* The parser on documents with bracketed text in section bodies            *)

\* section headers, text, and a body line that begins with [ and is no header
ParseLines ==
    { <<LB, "ABOUT", RB>>,
      <<LB, "ABOUT", RB, SP, AT, "private">>,
      <<LB, "NARRATIVE", RB, SP, AT, "restricted">>,
      <<LB, "x", RB>>,
      <<"x">>,
      <<>> }

ParseDocs == DocsOf(ParseLines, MaxLines)

InitParse ==
    /\ pkm = <<>>
    /\ asset \in ParseDocs
    /\ validation = NoValidation
    /\ exit = -1
    /\ req = NoReq
    /\ load = NoLoad
    /\ resp = NoResp
    /\ body = <<>>
    /\ blocks = NoBlocks
    /\ calls = NoCalls
    /\ authn = NoAuthn
    /\ list = NoList
    /\ check = NoCheck
    /\ telos = NoTelos
    /\ projects = NoProjects

SpecParse == InitParse /\ [][Filter]_vars

-----------------------------------------------------------------------------
(* getAccessLevel as a function of the Authorization header and the secrets *)

AuthHeaders ==
    { NoHeader,
      HeaderOf(<<>>),
      HeaderOf(<<"Bearer", SP, "tokP">>),
      HeaderOf(<<"bearer", SP, SP, "tokR">>),
      HeaderOf(<<"tokP">>),
      HeaderOf(<<"tokR">>),
      HeaderOf(<<"Bearer">>),
      HeaderOf(<<"Bearer", SP, "other">>),
      HeaderOf(<<"Basic", SP, "tokP">>) }

Secrets == { NoSecret, SecretOf(<<>>), SecretOf(<<"tokP">>), SecretOf(<<"tokR">>) }

Envs == [PRIVATE_TOKEN : Secrets, RESTRICTED_TOKEN : Secrets]

Authenticate ==
    /\ ~authn.ran
    /\ authn' = [authn EXCEPT !.ran = TRUE,
                              !.level = GetAccessLevelOf(authn.header, authn.env)]
    /\ UNCHANGED <<pkm, asset, validation, exit, req, load, resp, body, blocks, calls, list, check, telos, projects>>

InitAuth ==
    /\ pkm = <<>>
    /\ asset = <<>>
    /\ validation = NoValidation
    /\ exit = -1
    /\ req = NoReq
    /\ load = NoLoad
    /\ resp = NoResp
    /\ body = <<>>
    /\ blocks = NoBlocks
    /\ calls = NoCalls
    /\ authn \in [ran : {FALSE}, header : AuthHeaders, env : Envs, level : {""}]
    /\ list = NoList
    /\ check = NoCheck
    /\ telos = NoTelos
    /\ projects = NoProjects

SpecAuth == InitAuth /\ [][Authenticate]_vars

-----------------------------------------------------------------------------
(* parseMarkdownList as a function of a section text                        *)

\* bullets with and without a space, an indented bullet, a line that is no bullet
ListLines ==
    { <<DASH, SP, "x">>,
      <<DASH, "s">>,
      <<SP, SP, DASH, SP, "x">>,
      <<"x", SP, DASH, SP, "s">>,
      <<"s">> }

ListTexts ==
    {<<>>} \cup { JoinLines(ls) : ls \in UNION { [1..k -> ListLines] : k \in 1..MaxLines } }

ParseList ==
    /\ ~list.ran
    /\ list' = [list EXCEPT !.ran = TRUE, !.items = ParseMarkdownList(list.text)]
    /\ UNCHANGED <<pkm, asset, validation, exit, req, load, resp, body, blocks, calls, authn, check, telos, projects>>

InitList ==
    /\ pkm = <<>>
    /\ asset = <<>>
    /\ validation = NoValidation
    /\ exit = -1
    /\ req = NoReq
    /\ load = NoLoad
    /\ resp = NoResp
    /\ body = <<>>
    /\ blocks = NoBlocks
    /\ calls = NoCalls
    /\ authn = NoAuthn
    /\ list \in [ran : {FALSE}, text : ListTexts, items : {<<>>}]
    /\ check = NoCheck
    /\ telos = NoTelos
    /\ projects = NoProjects

SpecList == InitList /\ [][ParseList]_vars

-----------------------------------------------------------------------------
(* Requests in flight: the invocations of handleMcpRequest interleave at    *)
(* their awaits                                                             *)

\* a document whose sections read differently at each level
LevelledAsset ==
    <<LB, "ABOUT", RB, NL, "x", NL, AT, "private", NL, "s", NL,
      LB, "NARRATIVE", RB, SP, AT, "restricted", NL, "x", NL>>

CallToolNames == {"get_about", "get_narrative", "get_nonexistent"}

\* a request arrives: getAccessLevel, the tool lookup and the access check run
\* before the first await of loadDaemonData
Receive(i) ==
    /\ calls[i].pc = "idle"
    /\ \E auth \in AuthTokens, name \in CallToolNames :
          LET userAccessLevel == GetAccessLevel(auth)
          IN  calls' = [calls EXCEPT ![i] =
                  IF ReachesLoad(userAccessLevel, name)
                  THEN [NoCall EXCEPT !.pc = "loading", !.auth = auth, !.name = name,
                                      !.userAccessLevel = userAccessLevel]
                  ELSE [NoCall EXCEPT !.pc = "done", !.auth = auth, !.name = name,
                                      !.userAccessLevel = userAccessLevel,
                                      !.resp = HandleToolsCall(<<>>, userAccessLevel,
                                                               name, "")]]
    /\ UNCHANGED <<pkm, asset, validation, exit, req, load, resp, body, blocks, authn, list, check, telos, projects>>

\* await getDaemonContent resolves
Fetched(i) ==
    /\ calls[i].pc = "loading"
    /\ \E kvOk \in BOOLEAN :
          calls' = [calls EXCEPT ![i].pc = "loaded", ![i].kvOk = kvOk,
                                 ![i].content = GetDaemonContent(asset, kvOk)]
    /\ UNCHANGED <<pkm, asset, validation, exit, req, load, resp, body, blocks, authn, list, check, telos, projects>>

\* mutant of handleMcpRequest: the requester level is kept in a variable that
\* the requests in flight share
RespondWithSharedLevel(i) ==
    /\ calls[i].pc = "loaded"
    /\ \E j \in Slots :
          /\ calls[j].pc # "idle"
          /\ calls' = [calls EXCEPT ![i].pc = "done",
                                    ![i].resp = HandleToolsCall(calls[i].content,
                                                                calls[j].userAccessLevel,
                                                                calls[i].name,
                                                                calls[i].section)]
    /\ UNCHANGED <<pkm, asset, validation, exit, req, load, resp, body, blocks, authn, list, check, telos, projects>>

\* the rest of loadDaemonData and of the tools/call branch, from the invocation's
\* own locals
Respond(i) ==
    /\ calls[i].pc = "loaded"
    /\ calls' = [calls EXCEPT ![i].pc = "done",
                              ![i].resp = HandleToolsCall(calls[i].content,
                                                          calls[i].userAccessLevel,
                                                          calls[i].name,
                                                          calls[i].section)]
    /\ UNCHANGED <<pkm, asset, validation, exit, req, load, resp, body, blocks, authn, list, check, telos, projects>>

\* the response is sent and the invocation ends
Return(i) ==
    /\ calls[i].pc = "done"
    /\ calls' = [calls EXCEPT ![i] = NoCall]
    /\ UNCHANGED <<pkm, asset, validation, exit, req, load, resp, body, blocks, authn, list, check, telos, projects>>

InitCalls ==
    /\ pkm = <<>>
    /\ asset \in {InitialAsset, LevelledAsset}
    /\ validation = NoValidation
    /\ exit = -1
    /\ req = NoReq
    /\ load = NoLoad
    /\ resp = NoResp
    /\ body = <<>>
    /\ blocks = NoBlocks
    /\ calls = NoCalls
    /\ authn = NoAuthn
    /\ list = NoList
    /\ check = NoCheck
    /\ telos = NoTelos
    /\ projects = NoProjects

NextCalls == \E i \in Slots : Receive(i) \/ Fetched(i) \/ Respond(i) \/ Return(i)

SpecCalls == InitCalls /\ [][NextCalls]_vars

-----------------------------------------------------------------------------
(* parseContentBlocks as a function of a section body                       *)

BodyLines == MarkerLines \cup TextLines

\* the bodies parseDaemonDataWithAccess hands over: sectionContent is trimmed
Bodies == { Trim(d) : d \in DocsOf(BodyLines, MaxLines) }

ParseBlocks ==
    /\ ~blocks.ran
    /\ blocks' = [ran |-> TRUE, blocks |-> ParseContentBlocks(body)]
    /\ UNCHANGED <<pkm, asset, validation, exit, req, load, resp, body, calls, authn, list, check, telos, projects>>

InitBlocks ==
    /\ pkm = <<>>
    /\ asset = <<>>
    /\ validation = NoValidation
    /\ exit = -1
    /\ req = NoReq
    /\ load = NoLoad
    /\ resp = NoResp
    /\ body \in Bodies
    /\ blocks = NoBlocks
    /\ calls = NoCalls
    /\ authn = NoAuthn
    /\ list = NoList
    /\ check = NoCheck
    /\ telos = NoTelos
    /\ projects = NoProjects

SpecBlocks == InitBlocks /\ [][ParseBlocks]_vars

-----------------------------------------------------------------------------
(* The stand-alone validator                                                *)

\* mutant of the stand-alone validator's parser: a header without a marker
\* gets the level public
ValidatorParseWithPublicDefault(content) ==
    Val2(SectionMatches(content), "public", SectionsOfMatches)

\* parseDaemonDataWithAccess of the stand-alone validator: a header without a
\* marker has no level
ValidatorParseDaemonDataWithAccess(content) ==
    Val2(SectionMatches(content), "undefined", SectionsOfMatches)

\* validateContentSecurity of the stand-alone validator
ValidatorValidateContentSecurity(content) ==
    Val1(Val1(ValidatorParseDaemonDataWithAccess(content), SecurityErrors), SecurityResult)

\* the section names of the loop over /\[([A-Z_]+)\](?!\s*@\w)/g, one warning
\* each
FormatWarnings(s) ==
    LET At(i) == RunEnd(s, i + 3, IsSpace)
        Hit(i) == /\ i + 2 <= Len(s)
                  /\ s[i] = LB /\ IsUpper(s[i + 1]) /\ s[i + 2] = RB
                  /\ ~(/\ At(i) + 1 <= Len(s)
                       /\ s[At(i)] = AT /\ IsWord(s[At(i) + 1]))
        from[lastIndex \in 1..(Len(s) + 1)] ==
            LET hits == {i \in lastIndex..Len(s) : Hit(i)}
            IN  IF hits = {} THEN <<>>
                ELSE <<s[Min(hits) + 1]>> \o from[Min(hits) + 3]
    IN  from[1]

\* validateAccessFormat of the stand-alone validator: the errors of the build
\* script's, and the warnings
ValidatorValidateAccessFormat(content) ==
    [valid |-> Len(Val1(content, FormatErrors)) = 0,
     errors |-> Val1(content, FormatErrors),
     warnings |-> Val1(content, FormatWarnings)]

\* the documents the stand-alone validator is run on
ValidatorDocs ==
    DocsOf({ <<LB, "ABOUT", RB>>,
             <<LB, "NARRATIVE", RB, SP, AT, "restricted">>,
             <<LB, "NARRATIVE", RB, SP, AT, "secret">>,
             <<AT, "public">>,
             <<AT, "secret">>,
             <<"x">> }, MaxLines)

\* validateDaemonData: read the source, validate its format (warnings are only
\* logged), validate its security; process.exit(success ? 0 : 1)
ValidateDaemonData ==
    \E readOk \in BOOLEAN :
        LET format == ValidatorValidateAccessFormat(pkm)
            security == ValidatorValidateContentSecurity(pkm)
        IN  /\ ~check.ran
            /\ check' = IF ~readOk
                        THEN [NoCheck EXCEPT !.ran = TRUE, !.exit = 1]
                        ELSE IF ~format.valid
                        THEN [ran |-> TRUE, read |-> TRUE, text |-> pkm,
                              warnings |-> format.warnings, format |-> FALSE,
                              security |-> FALSE, errors |-> format.errors, exit |-> 1]
                        ELSE IF ~security.valid
                        THEN [ran |-> TRUE, read |-> TRUE, text |-> pkm,
                              warnings |-> format.warnings, format |-> TRUE,
                              security |-> FALSE, errors |-> security.errors, exit |-> 1]
                        ELSE [ran |-> TRUE, read |-> TRUE, text |-> pkm,
                              warnings |-> format.warnings, format |-> TRUE,
                              security |-> TRUE, errors |-> <<>>, exit |-> 0]
            /\ UNCHANGED <<pkm, asset, validation, exit, req, load, resp, body, blocks, calls,
                           authn, list, telos, projects>>

InitValidator ==
    /\ pkm \in ValidatorDocs
    /\ asset = InitialAsset
    /\ validation = NoValidation
    /\ exit = -1
    /\ req = NoReq
    /\ load = NoLoad
    /\ resp = NoResp
    /\ body = <<>>
    /\ blocks = NoBlocks
    /\ calls = NoCalls
    /\ authn = NoAuthn
    /\ list = NoList
    /\ check = NoCheck
    /\ telos = NoTelos
    /\ projects = NoProjects

SpecValidator == InitValidator /\ [][ValidateDaemonData]_vars

-----------------------------------------------------------------------------
(* The projects branch of parseStructuredData as a function of a section    *)
(* text                                                                     *)

ProjectLines ==
    { <<"technical">>,
      <<"Creative">>,
      <<DASH, SP, "x">>,
      <<DASH, SP, "s">>,
      <<SP, SP, DASH, SP, "x">>,
      <<DASH, SP, "personal", SP, "x">>,
      <<"x">> }

ProjectTexts ==
    {<<>>} \cup { JoinLines(ls) : ls \in UNION { [1..k -> ProjectLines] : k \in 1..MaxLines } }

\* parseStructuredData on a filtered map whose only section is projects
ParseProjectsSection ==
    /\ ~projects.ran
    /\ projects' = [projects EXCEPT
                       !.ran = TRUE,
                       !.value = ParseStructuredData(
                                     << [key |-> "projects", value |-> projects.text] >>)[1].value]
    /\ UNCHANGED <<pkm, asset, validation, exit, req, load, resp, body, blocks, calls,
                   authn, list, check, telos>>

InitProjects ==
    /\ pkm = <<>>
    /\ asset = <<>>
    /\ validation = NoValidation
    /\ exit = -1
    /\ req = NoReq
    /\ load = NoLoad
    /\ resp = NoResp
    /\ body = <<>>
    /\ blocks = NoBlocks
    /\ calls = NoCalls
    /\ authn = NoAuthn
    /\ list = NoList
    /\ check = NoCheck
    /\ telos = NoTelos
    /\ projects \in [ran : {FALSE}, text : ProjectTexts, value : {NoProjectsValue}]

SpecProjects == InitProjects /\ [][ParseProjectsSection]_vars

-----------------------------------------------------------------------------
(* parseTelosItems as a function of a section text                          *)

TelosLines ==
    { <<DASH, SP, "P1", COLON, SP, "x">>,
      <<DASH, "M2", COLON>>,
      <<SP, SP, DASH, SP, "G3", COLON, SP, "x">>,
      <<DASH, SP, "x">>,
      <<DASH, SP, "x", COLON, SP, "P1">>,
      <<"P1", COLON, SP, "x">> }

TelosTexts ==
    {<<>>} \cup { JoinLines(ls) : ls \in UNION { [1..k -> TelosLines] : k \in 1..MaxLines } }

\* parseStructuredData on a filtered map whose only section is telos
ParseTelos ==
    /\ ~telos.ran
    /\ telos' = [telos EXCEPT
                    !.ran = TRUE,
                    !.items = ParseStructuredData(
                                  << [key |-> "telos", value |-> telos.text] >>)[1].value]
    /\ UNCHANGED <<pkm, asset, validation, exit, req, load, resp, body, blocks, calls,
                   authn, list, check, projects>>

InitTelos ==
    /\ pkm = <<>>
    /\ asset = <<>>
    /\ validation = NoValidation
    /\ exit = -1
    /\ req = NoReq
    /\ load = NoLoad
    /\ resp = NoResp
    /\ body = <<>>
    /\ blocks = NoBlocks
    /\ calls = NoCalls
    /\ authn = NoAuthn
    /\ list = NoList
    /\ check = NoCheck
    /\ telos \in [ran : {FALSE}, text : TelosTexts, items : {<<>>}]
    /\ projects = NoProjects

SpecTelos == InitTelos /\ [][ParseTelos]_vars

-----------------------------------------------------------------------------
(* The fetch handler: POST tools/list, POST tools/call and GET of a static  *)
(* asset on a deployed document                                             *)

FetchDocs ==
    DocsOf({ <<LB, "NARRATIVE", RB>>,
             <<LB, "NARRATIVE", RB, SP, AT, "restricted">>,
             <<AT, "private">>,
             <<"x">>,
             <<"s">> }, MaxLines)

FetchToolNames == {"get_narrative", "get_all", "get_section"}
FetchSectionArgs == {"", "NARRATIVE"}
AssetPaths == {"/daemon.md", "/missing"}

\* POST / with method tools/list
PostToolsList ==
    \E auth \in AuthTokens :
        /\ req = NoReq
        /\ req' = [method |-> "tools/list", auth |-> auth, name |-> "", section |-> "",
                   kvOk |-> TRUE]
        /\ load' = NoLoad
        /\ resp' = HandleToolsList(GetAccessLevel(auth))
        /\ UNCHANGED <<pkm, asset, validation, exit, body, blocks, calls, authn, list,
                       check, telos, projects>>

\* POST / with method tools/call
PostToolsCall ==
    \E auth \in AuthTokens, name \in FetchToolNames, section \in FetchSectionArgs,
       kvOk \in BOOLEAN :
        LET userAccessLevel == GetAccessLevel(auth)
            content == GetDaemonContent(asset, kvOk)
        IN  /\ req = NoReq
            /\ section # "" => name = "get_section"
            /\ req' = [method |-> "tools/call", auth |-> auth, name |-> name,
                       section |-> section, kvOk |-> kvOk]
            /\ load' = IF ReachesLoad(userAccessLevel, name)
                       THEN LoadDaemonData(content, userAccessLevel)
                       ELSE NoLoad
            /\ resp' = HandleToolsCall(content, userAccessLevel, name, section)
            /\ UNCHANGED <<pkm, asset, validation, exit, body, blocks, calls, authn, list,
                           check, telos, projects>>

\* GET of a path: the request goes to getAssetFromKV whatever its credential
GetAsset ==
    \E auth \in AuthTokens, path \in AssetPaths, kvOk \in BOOLEAN :
        /\ req = NoReq
        /\ req' = [method |-> "GET", auth |-> auth, name |-> path, section |-> "",
                   kvOk |-> kvOk]
        /\ load' = NoLoad
        /\ resp' = ServeAsset(asset, path, kvOk)
        /\ UNCHANGED <<pkm, asset, validation, exit, body, blocks, calls, authn, list,
                       check, telos, projects>>

InitFetch ==
    /\ pkm = <<>>
    /\ asset \in FetchDocs
    /\ validation = NoValidation
    /\ exit = -1
    /\ req = NoReq
    /\ load = NoLoad
    /\ resp = NoResp
    /\ body = <<>>
    /\ blocks = NoBlocks
    /\ calls = NoCalls
    /\ authn = NoAuthn
    /\ list = NoList
    /\ check = NoCheck
    /\ telos = NoTelos
    /\ projects = NoProjects

NextFetch == PostToolsList \/ PostToolsCall \/ GetAsset

SpecFetch == InitFetch /\ [][NextFetch]_vars

-----------------------------------------------------------------------------
(* Properties                                                               *)

\* rank of the access scale: public=0, restricted=1, private=2.  A comparison of
\* ranks holds only between levels of the scale.
Rank(level) ==
    CASE level = "public" -> 0
      [] level = "restricted" -> 1
      [] level = "private" -> 2

RankGeq(a, b) == a \in LevelWords /\ b \in LevelWords /\ Rank(a) >= Rank(b)
RankLess(a, b) == a \in LevelWords /\ b \in LevelWords /\ Rank(a) < Rank(b)

\* the effective level of a block: its explicit level, else the section's
\* declared level, public when the section declares none
EffectiveLevel(block, section) ==
    IF block.accessLevel # "inherited" THEN block.accessLevel
    ELSE IF section.defaultAccessLevel = "undefined" THEN "public"
    ELSE section.defaultAccessLevel

Keys(map) == {map[i].key : i \in 1..Len(map)}

IsMarkerLine(line) == Len(line) = 2 /\ line[1] = AT /\ line[2] \in LevelWords
IsHeaderLine(line) ==
    Len(line) >= 3 /\ line[1] = LB /\ IsUpper(line[2]) /\ line[3] = RB

\* the level a marker line or a section header states (public for a header
\* without a marker)
StatedLevel(line) ==
    IF IsMarkerLine(line) THEN line[2]
    ELSE IF Len(line) = 6 /\ line[5] = AT THEN line[6]
    ELSE "public"

\* C1: every document text that loadDaemonData parses and filters for a
\* tools/call passes the Security Validator: a document with a block less
\* restrictive than its section never reaches the Content Filter.
C1_ValidatedBeforeFilter ==
    load.ran => ValidateContentSecurity(load.content).valid

\* the line that governs line i: the last marker line or section header above it
Governing(lines, i) ==
    LET above == {j \in 1..(i - 1) : IsMarkerLine(lines[j]) \/ IsHeaderLine(lines[j])}
    IN  IF above = {} THEN 0 ELSE CHOOSE j \in above : \A k \in above : j >= k

\* line i is text that follows a marker line, or lies in the body of a section
\* declared, at a level above the requester's
HiddenLine(lines, i, userLevel) ==
    /\ ~IsMarkerLine(lines[i])
    /\ ~IsHeaderLine(lines[i])
    /\ Governing(lines, i) # 0
    /\ RankLess(userLevel, StatedLevel(lines[Governing(lines, i)]))

\* the document with other text on every hidden line
OtherHiddenText(text, userLevel) ==
    LET lines == SplitLines(text)
    IN  JoinLines([i \in 1..Len(lines) |->
                      IF HiddenLine(lines, i, userLevel)
                      THEN [k \in 1..Len(lines[i]) |->
                               IF lines[i][k] = "x" THEN "s" ELSE lines[i][k]]
                      ELSE lines[i]])

\* C2: non-interference: two documents that differ only in text above the
\* requester's level give the requester the same filtered view.
C2_NonInterference ==
    load.ran =>
        FilteredSections(OtherHiddenText(load.content, load.level), load.level)
            = load.filtered

\* the texts of the blocks of a section whose effective level ranks at or
\* below the requester's, in block order
PermittedTexts(section, userLevel) ==
    LET Permitted(block) == RankGeq(userLevel, EffectiveLevel(block, section))
        kept == SelectSeq(section.content, Permitted)
    IN  [i \in 1..Len(kept) |-> kept[i].content]

\* C3: for every parsed section and requester level, filterSectionContent
\* returns exactly the texts of the blocks whose effective level E satisfies
\* rank(L) >= rank(E), in block order, joined by one blank line.
C3_FilterExactlyPermitted ==
    load.ran =>
        \A i \in 1..Len(load.sections) :
            FilterSectionContent(load.sections[i], load.level)
                = JoinBlankLine(PermittedTexts(load.sections[i], load.level))

\* the blocks a body splits into on its marker lines: the text before the first
\* marker line is an inherited block, the text between a marker line and the
\* next one (or the end) a block at that marker's level; empty texts are dropped
BlocksByMarkerLines(text) ==
    LET lines == SplitLines(text)
        markers == {i \in 1..Len(lines) : IsMarkerLine(lines[i])}
        NextMarker(i) ==
            LET later == {j \in markers : j > i}
            IN  IF later = {} THEN Len(lines) + 1
                ELSE CHOOSE j \in later : \A k \in later : j <= k
        TextBetween(i, j) == Trim(JoinLines(Slice(lines, i + 1, j)))
        from[i \in 0..(Len(lines) + 1)] ==
            IF i > Len(lines) THEN <<>>
            ELSE IF TextBetween(i, NextMarker(i)) = <<>> THEN from[NextMarker(i)]
            ELSE << [content |-> TextBetween(i, NextMarker(i)),
                     accessLevel |-> IF i = 0 THEN "inherited" ELSE lines[i][2]] >>
                 \o from[NextMarker(i)]
    IN  from[0]

\* C4: parseContentBlocks splits a body on every line that consists solely of
\* @public, @restricted or @private; no marker line ends up inside a block.
C4_SplitOnEveryMarkerLine ==
    blocks.ran => blocks.blocks = BlocksByMarkerLines(body)

\* C5: isAccessible(c, u) is true iff rank(u) >= rank(c); exactly 6 of the 9
\* pairs of levels are accessible; the tool gate of tools/call denies exactly
\* the tools above the requester's level.
C5_AccessOrdering ==
    /\ \A c \in LevelWords, u \in LevelWords : IsAccessible(c, u) <=> Rank(u) >= Rank(c)
    /\ Cardinality({p \in LevelWords \X LevelWords : IsAccessible(p[1], p[2])}) = 6
    /\ \A l \in LevelWords : IsAccessible(l, l)
    /\ (req.method = "tools/call" /\ req.name \in ToolNames) =>
           ((resp.code = -32603)
                <=> ~(Rank(GetAccessLevel(req.auth)) >= Rank(ToolAccessLevel(req.name))))

C5_Witness ==
    /\ req.method = "tools/call"
    /\ req.name = "get_narrative"
    /\ GetAccessLevel(req.auth) = "public"
    /\ resp.code = -32603

\* C6: the map loadDaemonData returns has no key with empty text; a section
\* without blocks, or whose blocks all rank above the requester, is absent.
C6_NoEmptySection ==
    load.ran =>
        /\ \A i \in 1..Len(load.filtered) : Trim(load.filtered[i].value) # <<>>
        /\ \A i \in 1..Len(load.sections) :
              (\A n \in 1..Len(load.sections[i].content) :
                  RankLess(load.level,
                           EffectiveLevel(load.sections[i].content[n], load.sections[i])))
              => load.sections[i].name \notin Keys(load.filtered)

\* a section consisting solely of @private-marked content, requested at public
C6_Witness ==
    /\ load.ran
    /\ load.level = "public"
    /\ load.content = <<LB, "ABOUT", RB, NL, AT, "private", NL, "x", NL>>
    /\ Len(load.sections) = 1
    /\ load.filtered = <<>>

\* the section a tools/call asks for
RequestedSection(name, section) ==
    IF name = "get_section" THEN ToLowerCase(section) ELSE ToolToSection(name)

\* the request names an unknown tool, a section that is not in the document,
\* or a section all of whose blocks rank above the requester
NotFoundSituation(content, userLevel, name, section) ==
    LET sections == ParseDaemonDataWithAccess(content)
        found == {i \in 1..Len(sections) :
                     sections[i].name = RequestedSection(name, section)}
    IN  \/ name \notin ToolNames
        \/ /\ name \in ToolNames \ {"get_all"}
           /\ RequestedSection(name, section) # ""
           /\ \/ found = {}
              \/ \A i \in found :
                    /\ sections[i].content # <<>>
                    /\ \A n \in 1..Len(sections[i].content) :
                          RankLess(userLevel,
                                   EffectiveLevel(sections[i].content[n], sections[i]))

\* what a caller can tell of a response apart from the identifier it sent
Outcome(r) ==
    [kind |-> r.kind,
     code |-> r.code,
     what |-> IF r.kind = "error" THEN r.message[1]
              ELSE IF Len(r.text) = 3 /\ r.text[1] = "Section '" THEN r.text[3]
              ELSE "content"]

\* C7: an unknown tool, a section that does not exist and a section that is
\* fully restricted for the requester all give the same not-found outcome.
C7_SameNotFoundOutcome ==
    (/\ req.method = "tools/call"
     /\ req.name # ""
     /\ NotFoundSituation(GetDaemonContent(asset, req.kvOk), GetAccessLevel(req.auth),
                          req.name, req.section))
    => Outcome(resp)
           = Outcome(HandleToolsCall(GetDaemonContent(asset, req.kvOk),
                                     GetAccessLevel(req.auth), "get_section", "missing"))

\* C8: a tools/call naming a tool that is not in TOOLS has the same outcome at
\* every requester level and for every document.
C8_UnknownToolSameOutcome ==
    (req.method = "tools/call" /\ req.name # "" /\ req.name \notin ToolNames) =>
        /\ resp = JsonRpcError(-32601, <<"Unknown tool: ", req.name>>)
        /\ \A l \in LevelWords, d \in {asset, pkm, <<>>} :
              HandleToolsCall(d, l, req.name, req.section) = resp

C8_Witness ==
    /\ req.method = "tools/call"
    /\ req.name = "get_nonexistent"
    /\ req.auth = PRIVATE_TOKEN
    /\ asset # InitialAsset
    /\ resp.code = -32601

\* C9: filtering at private level drops nothing: every section that has blocks
\* is returned with all its blocks, in order.
C9_PrivateSeesAll ==
    (load.ran /\ load.level = "private") =>
        \A i \in 1..Len(load.sections) :
            LET texts == [n \in 1..Len(load.sections[i].content) |->
                             load.sections[i].content[n].content]
            IN  IF texts = <<>>
                THEN load.sections[i].name \notin Keys(load.filtered)
                ELSE /\ load.sections[i].name \in Keys(load.filtered)
                     /\ Lookup(load.filtered, load.sections[i].name) = JoinBlankLine(texts)

C9_Witness ==
    /\ load.ran
    /\ load.level = "private"
    /\ Len(load.sections) = 1
    /\ Len(load.sections[1].content) = 2
    /\ load.sections[1].content[2].accessLevel = "private"
    /\ load.filtered = << [key |-> "about", value |-> <<"x", NL, NL, "x">>] >>

\* the violations of a parsed document: the explicitly-levelled blocks that rank
\* below the declared level of their section
ViolatingBlocks(sections) ==
    {p \in (1..Len(sections)) \X (1..MaxLines) :
        /\ p[2] <= Len(sections[p[1]].content)
        /\ sections[p[1]].defaultAccessLevel # "undefined"
        /\ sections[p[1]].content[p[2]].accessLevel # "inherited"
        /\ RankLess(sections[p[1]].content[p[2]].accessLevel,
                    sections[p[1]].defaultAccessLevel)}

\* C10: validateContentSecurity reports exactly one error for each explicit
\* block that ranks below the declared level of its section, naming the
\* section and both levels, and no other error; valid iff no error.
C10_OneErrorPerViolation ==
    validation.by = "validateContentSecurity" =>
        LET sections == BuildParseDaemonDataWithAccess(validation.text)
            bad == ViolatingBlocks(sections)
            ErrorOf(p) == [section |-> sections[p[1]].name,
                           sectionLevel |-> sections[p[1]].defaultAccessLevel,
                           blockLevel |-> sections[p[1]].content[p[2]].accessLevel]
        IN  /\ Len(validation.errors) = Cardinality(bad)
            /\ \A p \in bad :
                  Cardinality({k \in 1..Len(validation.errors) :
                                  validation.errors[k] = ErrorOf(p)})
                      = Cardinality({q \in bad : ErrorOf(q) = ErrorOf(p)})
            /\ validation.security <=> (validation.errors = <<>>)

\* a @restricted section containing one @public block
C10_Witness ==
    /\ validation.by = "validateContentSecurity"
    /\ validation.text = <<LB, "NARRATIVE", RB, SP, AT, "restricted", NL, "x", NL,
                           AT, "public", NL, "x", NL>>
    /\ validation.errors = << [section |-> "narrative", sectionLevel |-> "restricted",
                               blockLevel |-> "public"] >>
    /\ ~validation.security

\* the line after the lines governed by line j: the next marker line or section
\* header, or the end
NextGoverning(lines, j) ==
    LET below == {k \in (j + 1)..Len(lines) :
                     IsMarkerLine(lines[k]) \/ IsHeaderLine(lines[k])}
    IN  IF below = {} THEN Len(lines) + 1
        ELSE CHOOSE k \in below : \A m \in below : k <= m

\* the unmarked block under the header on line j
UnmarkedText(lines, j) == Trim(JoinLines(Slice(lines, j + 1, NextGoverning(lines, j))))

\* the document with other text in the unmarked block under line j
OtherUnmarkedText(lines, j) ==
    JoinLines([k \in 1..Len(lines) |->
                  IF k > j /\ k < NextGoverning(lines, j)
                  THEN [n \in 1..Len(lines[k]) |->
                           IF lines[k][n] = "x" THEN "s" ELSE lines[k][n]]
                  ELSE lines[k]])

\* C11: an unmarked block of a section declared @restricted is absent from the
\* filtered result of a public requester (the result does not depend on its
\* text) and present in that of a restricted or private requester; an unmarked
\* block of a section that declares no level is present for every requester.
C11_InheritedBlockVisibility ==
    load.ran =>
        LET lines == SplitLines(load.content)
        IN  \A j \in 1..Len(lines) :
                (/\ IsHeaderLine(lines[j])
                 /\ StatedLevel(lines[j]) \in {"restricted", "public"}
                 /\ UnmarkedText(lines, j) # <<>>
                 /\ \A k \in 1..Len(lines) :
                        (IsHeaderLine(lines[k]) /\ lines[k][2] = lines[j][2]) => k = j)
                => IF RankGeq(load.level, StatedLevel(lines[j]))
                   THEN /\ ToLowerCase(lines[j][2]) \in Keys(load.filtered)
                        /\ Slice(Lookup(load.filtered, ToLowerCase(lines[j][2])), 1,
                                 Len(UnmarkedText(lines, j)) + 1)
                               = UnmarkedText(lines, j)
                   ELSE FilteredSections(OtherUnmarkedText(lines, j), load.level)
                            = load.filtered

\* C13: when getAssetFromKV fails, the response of a tools/call that loads the
\* document differs from the response for a successfully fetched empty document.
C13_FetchFailureIsNotEmptyDocument ==
    (req.method = "tools/call" /\ load.ran /\ ~req.kvOk) =>
        resp # HandleToolsCall(<<>>, GetAccessLevel(req.auth), req.name, req.section)

\* C15: a run of the build writes public/daemon.md only when validateAccessFormat
\* and then validateContentSecurity returned valid on the text written; when
\* either fails nothing is written, the later stage is not run and the exit
\* status is 1; the exit status is 0 only if the file was written.
C15_WriteOnlyAfterValidation ==
    [][ (exit' # exit \/ validation' # validation) =>
           /\ exit' \in {0, 1}
           /\ exit' = 0 =>
                 /\ validation'.by = "build"
                 /\ validation'.text = pkm
                 /\ ValidateAccessFormat(pkm).valid
                 /\ ValidateContentSecurity(pkm).valid
                 /\ asset' = pkm
           /\ exit' = 1 => asset' = asset
           /\ ~(ValidateAccessFormat(pkm).valid /\ ValidateContentSecurity(pkm).valid) =>
                 /\ exit' = 1
                 /\ asset' = asset
           /\ (validation'.by = "build" /\ ~ValidateAccessFormat(pkm).valid) =>
                 /\ ~validation'.format
                 /\ ~validation'.security
                 /\ validation'.errors = ValidateAccessFormat(pkm).errors
           /\ (validation'.by = "build" /\ ValidateAccessFormat(pkm).valid
                 /\ ~ValidateContentSecurity(pkm).valid) =>
                 /\ validation'.format
                 /\ ~validation'.security
                 /\ validation'.errors = ValidateContentSecurity(pkm).errors
       ]_vars

\* a build whose source passes the format check and fails the security check:
\* exit status 1, public/daemon.md as it was
C15_Witness ==
    /\ validation.by = "build"
    /\ validation.text = pkm
    /\ validation.format
    /\ ~validation.security
    /\ validation.errors # <<>>
    /\ exit = 1
    /\ asset = InitialAsset
    /\ pkm # InitialAsset

\* a occurs in b as a subsequence
IsSubsequence(a, b) ==
    LET fits[i \in 0..Len(a), j \in 0..Len(b)] ==
            IF i = 0 THEN TRUE
            ELSE IF j = 0 THEN FALSE
            ELSE \/ fits[i, j - 1]
                 \/ a[i] = b[j] /\ fits[i - 1, j - 1]
    IN  fits[Len(a), Len(b)]

\* the headers that carry, on their own line, a marker token outside the three
\* levels: section name and token, in document order
OffendingHeaders(text) ==
    LET lines == SplitLines(text)
        Offends(line) == /\ IsHeaderLine(line)
                         /\ Len(line) = 6
                         /\ line[5] = AT
                         /\ line[6] \notin LevelWords
        upto[n \in 0..Len(lines)] ==
            IF n = 0 THEN <<>>
            ELSE IF Offends(lines[n])
            THEN Append(upto[n - 1], [section |-> lines[n][2], level |-> lines[n][6]])
            ELSE upto[n - 1]
    IN  upto[Len(lines)]

\* the errors that name a section: section name and token
SectionErrorsOf(errors) ==
    LET NamesSection(e) == e.kind = "section"
        named == SelectSeq(errors, NamesSection)
    IN  [k \in 1..Len(named) |-> [section |-> named[k].section, level |-> named[k].level]]

Count(seq, x) == Cardinality({k \in 1..Len(seq) : seq[k] = x})

\* C14: validateAccessFormat does not stop at the first problem: every header
\* that carries a marker token outside {public, restricted, private} gets one
\* error naming its section and the token, in document order, and valid is
\* false iff at least one error was collected.
C14_EveryOffendingHeaderReported ==
    validation.by = "validateAccessFormat" =>
        LET offending == OffendingHeaders(validation.text)
            named == SectionErrorsOf(validation.errors)
        IN  /\ IsSubsequence(offending, named)
            /\ \A k \in 1..Len(offending) :
                  Count(named, offending[k]) = Count(offending, offending[k])
            /\ validation.format <=> (validation.errors = <<>>)
            /\ offending # <<>> => ~validation.format

\* two offending headers: both are reported
C14_Witness ==
    /\ validation.by = "validateAccessFormat"
    /\ validation.text = <<LB, "ABOUT", RB, SP, AT, "hidden", NL,
                           LB, "NARRATIVE", RB, SP, AT, "secret", NL>>
    /\ SectionErrorsOf(validation.errors)
           = << [section |-> "ABOUT", level |-> "hidden"],
                [section |-> "NARRATIVE", level |-> "secret"] >>
    /\ ~validation.format

\* C19: the declared level of a section is the level its header states on its
\* own line, public when the header line carries no marker, whatever the next
\* lines are.
C19_LevelFromHeaderLineOnly ==
    load.ran =>
        \A i \in 1..Len(load.sections) :
            \E line \in {SplitLines(load.content)[k] :
                            k \in 1..Len(SplitLines(load.content))} :
                /\ IsHeaderLine(line)
                /\ ToLowerCase(line[2]) = load.sections[i].name
                /\ StatedLevel(line) = load.sections[i].defaultAccessLevel

\* C20: whenever filterSectionContent calls isAccessible, both arguments are
\* one of public, restricted, private: no section with another marker token
\* reaches the filter.
C20_CanonicalLevelsOnly ==
    load.ran =>
        /\ load.level \in LevelWords
        /\ \A i \in 1..Len(load.sections) :
              \A n \in 1..Len(load.sections[i].content) :
                  ResolveContentAccessLevel(load.sections[i].content[n].accessLevel,
                                            load.sections[i].defaultAccessLevel)
                      \in LevelWords

\* the body of the section whose header is line j: the lines after it up to the
\* next section header or the end
BodyByLines(lines, j) ==
    LET headers == {k \in (j + 1)..Len(lines) : IsHeaderLine(lines[k])}
        next == IF headers = {} THEN Len(lines) + 1
                ELSE CHOOSE k \in headers : \A m \in headers : k <= m
    IN  Trim(JoinLines(Slice(lines, j + 1, next)))

\* C18: the body of a section is every line after its header up to the next
\* section header or the end of the document; a body line that begins with [
\* and is no section header stays in the body, with the lines after it.
C18_BodyUpToNextHeader ==
    load.ran =>
        LET lines == SplitLines(load.content)
        IN  \A j \in 1..Len(lines) :
                (/\ IsHeaderLine(lines[j])
                 /\ \A k \in 1..Len(lines) :
                        (IsHeaderLine(lines[k]) /\ lines[k][2] = lines[j][2]) => k = j)
                => \E i \in 1..Len(load.sections) :
                      /\ load.sections[i].name = ToLowerCase(lines[j][2])
                      /\ load.sections[i].content
                             = ParseContentBlocks(BodyByLines(lines, j))

\* the secret is configured and not empty, and the presented token equals it
Presents(header, secret) ==
    /\ header.present
    /\ header.value # <<>>
    /\ secret.defined
    /\ secret.value # <<>>
    /\ BearerToken(header.value) = secret.value

\* C16: getAccessLevel returns private only when the presented token equals a
\* configured, non-empty PRIVATE_TOKEN, restricted only when it equals a
\* configured, non-empty RESTRICTED_TOKEN and not the private one, and public
\* in every other case; it never returns anything else.
C16_TokenToLevel ==
    authn.ran =>
        /\ authn.level \in LevelWords
        /\ authn.level = "private" <=> Presents(authn.header, authn.env.PRIVATE_TOKEN)
        /\ authn.level = "restricted"
               <=> /\ Presents(authn.header, authn.env.RESTRICTED_TOKEN)
                   /\ ~Presents(authn.header, authn.env.PRIVATE_TOKEN)
        /\ authn.level = "public"
               <=> /\ ~Presents(authn.header, authn.env.RESTRICTED_TOKEN)
                   /\ ~Presents(authn.header, authn.env.PRIVATE_TOKEN)

\* the same secret configured for both levels: its bearer is private
C16_Witness ==
    /\ authn.ran
    /\ authn.header = HeaderOf(<<"Bearer", SP, "tokP">>)
    /\ authn.env.PRIVATE_TOKEN = SecretOf(<<"tokP">>)
    /\ authn.env.RESTRICTED_TOKEN = SecretOf(<<"tokP">>)
    /\ authn.level = "private"

\* the line begins with the bullet marker, after optional leading whitespace
IsBulletLine(line) == Trim(line) # <<>> /\ Trim(line)[1] = DASH

\* the line without its bullet marker and the whitespace around it
BulletText(line) == Trim(Slice(Trim(line), 2, Len(Trim(line)) + 1))

\* one string per bullet line, in order
BulletTexts(text) ==
    LET lines == SplitLines(text)
        upto[n \in 0..Len(lines)] ==
            IF n = 0 THEN <<>>
            ELSE IF IsBulletLine(lines[n]) THEN Append(upto[n - 1], BulletText(lines[n]))
            ELSE upto[n - 1]
    IN  upto[Len(lines)]

\* C17: parseMarkdownList returns, in order, one string per line that begins
\* with the bullet marker after optional leading whitespace, the marker and the
\* whitespace around it stripped, and drops every other line.
C17_BulletsStripped ==
    list.ran => list.items = BulletTexts(list.text)

\* the response a request gets when it is the only one the worker handles
AloneResponse(call) ==
    HandleToolsCall(GetDaemonContent(asset, call.kvOk), GetAccessLevel(call.auth),
                    call.name, call.section)

\* C12: the response is a function of the document text and the requester
\* level only: with requests at different levels interleaved in any order, each
\* response equals the response the request gets alone, and two equal requests
\* get equal responses.
C12_RequestsIndependent ==
    /\ \A i \in Slots :
          calls[i].pc = "done" => calls[i].resp = AloneResponse(calls[i])
    /\ \A i \in Slots, j \in Slots :
          (/\ calls[i].pc = "done" /\ calls[j].pc = "done"
           /\ calls[i].auth = calls[j].auth /\ calls[i].name = calls[j].name
           /\ calls[i].kvOk = calls[j].kvOk)
          => calls[i].resp = calls[j].resp

\* two requests for the same tool, answered at the same time with different
\* views: one at public, one at private
C12_Witness ==
    /\ asset = LevelledAsset
    /\ calls[1].pc = "done" /\ calls[2].pc = "done"
    /\ calls[1].name = "get_about" /\ calls[2].name = "get_about"
    /\ calls[1].userAccessLevel = "private" /\ calls[2].userAccessLevel = "public"
    /\ calls[1].resp = TextResult(<<"x", NL, NL, "s">>)
    /\ calls[2].resp = TextResult(<<"x">>)

\* the tokens of the lines that consist solely of a marker whose token is none
\* of the three level names, in document order
InvalidMarkerLineTokens(text) ==
    LET lines == SplitLines(text)
        Offends(line) == Len(line) = 2 /\ line[1] = AT /\ IsWord(line[2])
                         /\ line[2] \notin LevelWords
        upto[n \in 0..Len(lines)] ==
            IF n = 0 THEN <<>>
            ELSE IF Offends(lines[n]) THEN Append(upto[n - 1], lines[n][2])
            ELSE upto[n - 1]
    IN  upto[Len(lines)]

\* the tokens of the content-level errors, in the order reported
ContentErrorTokens(errors) ==
    LET IsContent(e) == e.kind = "content"
        content == SelectSeq(errors, IsContent)
    IN  [k \in 1..Len(content) |-> content[k].level]

\* C21: validateAccessFormat reports a content-level error for exactly the
\* lines that consist solely of @token with a token outside {public,
\* restricted, private}: each such line is reported once, in order, and text
\* that merely ends with an @word is not reported.
C21_ContentErrorsAreMarkerLines ==
    validation.by = "validateAccessFormat" =>
        ContentErrorTokens(validation.errors) = InvalidMarkerLineTokens(validation.text)

\* the names of the section headers that carry no marker, in document order
BareHeaders(text) ==
    LET lines == SplitLines(text)
        upto[n \in 0..Len(lines)] ==
            IF n = 0 THEN <<>>
            ELSE IF IsHeaderLine(lines[n]) /\ Len(lines[n]) = 3
            THEN Append(upto[n - 1], lines[n][2])
            ELSE upto[n - 1]
    IN  upto[Len(lines)]

\* C22: a section header without a marker is never a format error: the
\* validate-only run warns once for each such header and for no other, the
\* format errors that name a section name only headers that carry an offending
\* marker, and a run fails only when it collected an error.
C22_BareHeaderWarnsNeverFails ==
    (check.ran /\ check.read) =>
        /\ check.warnings = BareHeaders(check.text)
        /\ IsSubsequence(SectionErrorsOf(check.errors), OffendingHeaders(check.text))
        /\ check.exit = 1 => check.errors # <<>>

\* the last header line of the document that names the section of line j
IsLastOccurrence(lines, j) ==
    /\ IsHeaderLine(lines[j])
    /\ \A k \in (j + 1)..Len(lines) :
          IsHeaderLine(lines[k]) => lines[k][2] # lines[j][2]

\* the sections the validators check, a missing level read as public
CheckedSections(content) ==
    LET sections == BuildParseDaemonDataWithAccess(content)
    IN  [i \in 1..Len(sections) |->
            [sections[i] EXCEPT !.defaultAccessLevel =
                IF @ = "undefined" THEN "public" ELSE @]]

\* C23: section names are lower-cased and unique in a parse result; of the
\* headers of a document that name the same section the last one wins: the
\* section has its declared level and the blocks of its body, nothing of an
\* earlier occurrence, and the validator and the filter see the same sections.
C23_LastOccurrenceWins ==
    load.ran =>
        LET lines == SplitLines(load.content)
        IN  /\ \A i, k \in 1..Len(load.sections) :
                  load.sections[i].name = load.sections[k].name => i = k
            /\ \A i \in 1..Len(load.sections) :
                  load.sections[i].name = ToLowerCase(load.sections[i].name)
            /\ CheckedSections(load.content) = load.sections
            /\ \A j \in 1..Len(lines) :
                  IsLastOccurrence(lines, j) =>
                      \E i \in 1..Len(load.sections) :
                          /\ load.sections[i].name = ToLowerCase(lines[j][2])
                          /\ load.sections[i].defaultAccessLevel = StatedLevel(lines[j])
                          /\ load.sections[i].content
                                 = ParseContentBlocks(BodyByLines(lines, j))

\* the category a line names: a line containing technical, creative or
\* personal in any case is a category header
HeaderCategory(line) ==
    LET Mentions(w) == \E k \in 1..Len(line) : ToLowerCase(line[k]) = w
    IN  IF Mentions("technical") THEN "technical"
        ELSE IF Mentions("creative") THEN "creative"
        ELSE IF Mentions("personal") THEN "personal"
        ELSE "none"

\* the category of the last category header above line n
GoverningCategory(lines, n) ==
    LET above == {k \in 1..(n - 1) : HeaderCategory(lines[k]) # "none"}
    IN  IF above = {} THEN "none"
        ELSE HeaderCategory(lines[CHOOSE k \in above : \A m \in above : k >= m])

\* a bullet line that is no category header
IsItemLine(line) == IsBulletLine(line) /\ HeaderCategory(line) = "none"

\* item is the text of the bullet line, with or without its marker
RendersLine(item, line) == item = BulletText(line) \/ item = Trim(line)

\* items are the item lines among lines[from..to], in order
RendersLines(items, lines, from, to) ==
    LET picked == {k \in from..to : IsItemLine(lines[k])}
        Nth(j) == CHOOSE k \in picked : Cardinality({m \in picked : m <= k}) = j
    IN  /\ Len(items) = Cardinality(picked)
        /\ \A j \in 1..Len(items) : RendersLine(items[j], lines[Nth(j)])

\* the lines from..to hold exactly one header of category c, at position h
OnlyHeaderOf(lines, c, h) ==
    /\ HeaderCategory(lines[h]) = c
    /\ \A k \in 1..Len(lines) : HeaderCategory(lines[k]) = c => k = h

\* the first category header below line h, or the line after the last
NextCategoryHeader(lines, h) ==
    LET below == {k \in (h + 1)..Len(lines) : HeaderCategory(lines[k]) # "none"}
    IN  IF below = {} THEN Len(lines) + 1
        ELSE CHOOSE k \in below : \A m \in below : k <= m

AllProjectItems(value) ==
    value.technical.items \o value.creative.items \o value.personal.items

\* C30: no bullet of the projects section is lost: the category lists together
\* hold one item for every non-empty bullet line, also for a bullet above the
\* first category header, below a header that occurs again, or with a category
\* name in its own text.
C30_NoProjectBulletLost ==
    projects.ran =>
        LET lines == SplitLines(projects.text)
            bullets == {k \in 1..Len(lines) : IsBulletLine(lines[k])}
            items == AllProjectItems(projects.value)
            Nth(j) == CHOOSE k \in bullets : Cardinality({m \in bullets : m <= k}) = j
        IN  /\ Len(items) = Cardinality(bullets)
            /\ \A k \in bullets :
                  Cardinality({j \in 1..Len(items) : RendersLine(items[j], lines[k])})
                      = Cardinality({m \in bullets : BulletText(lines[m]) = BulletText(lines[k])})

\* a bullet line whose content starts with a category code, digits and a colon
IsTelosLine(line) ==
    /\ IsBulletLine(line)
    /\ Len(BulletText(line)) >= 2
    /\ BulletText(line)[1] \in TelosCodes
    /\ BulletText(line)[2] = COLON

\* one string per such line, without the bullet marker, in order
TelosItems(text) ==
    LET lines == SplitLines(text)
        upto[n \in 0..Len(lines)] ==
            IF n = 0 THEN <<>>
            ELSE IF IsTelosLine(lines[n]) THEN Append(upto[n - 1], BulletText(lines[n]))
            ELSE upto[n - 1]
    IN  upto[Len(lines)]

\* C25: parseTelosItems returns, in order, one string per bullet line whose
\* content starts with a category code, digits and a colon, the bullet marker
\* stripped, and drops every other line, bulleted or not.
C25_TelosItemsStripped ==
    telos.ran => telos.items = TelosItems(telos.text)

\* the words of a text that stand for content
ContentWords(text) == {text[k] : k \in 1..Len(text)} \cap {"x", "s"}

\* the content words that the document holds only in blocks whose effective
\* level is restricted or private
HiddenBlockWords(content) ==
    LET sections == ParseDaemonDataWithAccess(content)
        WordsAt(levels) ==
            UNION { UNION { ContentWords(sections[i].content[j].content) :
                              j \in {j \in 1..Len(sections[i].content) :
                                        EffectiveLevel(sections[i].content[j], sections[i])
                                            \in levels} } :
                    i \in 1..Len(sections) }
    IN  WordsAt({"restricted", "private"}) \ WordsAt({"public"})

\* the content words in the body of a response
ResponseWords(response) ==
    ContentWords(response.text)
        \cup (IF response.kind = "result"
              THEN UNION {ContentWords(response.data[i].value) :
                             i \in 1..Len(response.data)}
              ELSE {})

\* C26: no response of the fetch handler to a request without a matching
\* credential holds text of a block whose effective level is restricted or
\* private, whatever the request: tools/list, tools/call with any tool, or GET
\* of a static asset such as /daemon.md.
C26_NoHiddenTextWithoutCredential ==
    (req.method # "none" /\ GetAccessLevel(req.auth) = "public") =>
        HiddenBlockWords(asset) \cap ResponseWords(resp) = {}

\* the requester levels at or below a level
LevelsUpTo(level) == {lower \in LevelWords : Rank(lower) <= Rank(level)}

Elements(seq) == {seq[k] : k \in 1..Len(seq)}

\* C27: visibility grows with the requester's level: what loadDaemonData
\* returns at a level holds every section name it returns at a lower level,
\* the blocks of a section visible at the lower level are a subsequence of
\* those visible at the higher, and tools/list at a level lists every tool it
\* lists at a lower level.
C27_VisibilityMonotone ==
    /\ load.ran =>
          \A lower \in LevelsUpTo(load.level) :
              /\ Keys(FilteredSections(load.content, lower)) \subseteq Keys(load.filtered)
              /\ \A i \in 1..Len(load.sections) :
                    IsSubsequence(AccessibleBlocks(load.sections[i], lower),
                                  AccessibleBlocks(load.sections[i], load.level))
    /\ resp.kind = "tools" =>
          \A lower \in LevelsUpTo(GetAccessLevel(req.auth)) :
              /\ Elements(HandleToolsList(lower).data) \subseteq Elements(resp.data)
              /\ IsSubsequence(HandleToolsList(lower).data, resp.data)

\* a private requester loads a public section with a private block: both
\* blocks are visible, the first one alone at public
C27_Witness ==
    /\ load.ran
    /\ load.level = "private"
    /\ load.content = <<LB, "NARRATIVE", RB, NL, "x", NL, AT, "private", NL, "s", NL>>
    /\ Len(load.sections) = 1
    /\ Len(AccessibleBlocks(load.sections[1], "private")) = 2
    /\ Len(AccessibleBlocks(load.sections[1], "public")) = 1

\* C28: the gate of a tool and get_section agree: when tools/call of a tool
\* mapped to a section is rejected with Access denied at a level, get_section
\* of that section at that level returns no content of it, and when the tool
\* is permitted, both return the same text.
C28_ToolGateMatchesGetSection ==
    (req.method = "tools/call" /\ ToolToSection(req.name) # "") =>
        LET userAccessLevel == GetAccessLevel(req.auth)
            content == GetDaemonContent(asset, req.kvOk)
            section == ToolToSection(req.name)
            bySection == HandleToolsCall(content, userAccessLevel, "get_section", section)
        IN  IF resp.kind = "error" /\ resp.code = -32603
            THEN bySection = TextResult(NotFoundText(section))
            ELSE bySection = resp

\* sections with a missing declared level read as public
WithPublicDefault(sections) ==
    [i \in 1..Len(sections) |->
        [sections[i] EXCEPT !.defaultAccessLevel =
            IF @ = "undefined" THEN "public" ELSE @]]

====
